---------------------------- MODULE Spec2Model ----------------------------
(***************************************************************************)
(* The durable task queue of backend/sqlite_queue.py (SQLiteTaskQueue):    *)
(* one SQLite table task_queue shared by callers that each hold a          *)
(* SQLiteTaskQueue object.  Time is counted in minutes.  Every SQL         *)
(* statement is one atomic step; a method that issues a SELECT and then an *)
(* UPDATE (dequeue, fail_task) is two steps, because Python's sqlite3      *)
(* opens no transaction for a SELECT and the code asks for none.           *)
(***************************************************************************)
EXTENDS Integers, Sequences, FiniteSets, TLC

\* ------------------------------------------------------------------ bounds
\* tasks enqueued in a run of Spec, and in a run of the one-caller specifications
MaxTasks == 1
MaxSeqTasks == 2
NumCallers == 2
\* minutes that may pass in a run, and whole days in a run of CleanupSpec
MaxClock == 2
MaxDays == 1
\* retry_with_backoff: the largest max_retries, base_delay, backoff_factor and max_delay
MaxBudget == 3
MaxBaseDelay == 2
MaxFactor == 3
MaxMaxDelay == 8
\* the largest attempt number the delay formula is evaluated for
MaxAttempt == 6
\* record_error calls in a run of TrackerSpec
MaxRecords == 8
\* process_document: runs of the task for the document, and the largest
\* number of chunks the chunking stage produces
MaxRuns == 2
MaxChunks == 2
\* the classifier: recognised keywords in the message of a failure handed to
\* log_and_handle_error
MaxKeywords == 2
\* the DatabaseManager called directly: calls made on one file record, and
\* the largest page count passed
MaxDbCalls == 3
MaxPages == 2

\* --------------------------------------------------------------- constants
\* max_retries INTEGER DEFAULT 3
DEFAULT_MAX_RETRIES == 3
\* a NULL timestamp column
NULL == -1
\* a NULL text column (result, error_message)
NULLTEXT == "NULL"
\* dequeue's "return None"
NoTask == 0

Ids == 1..(IF MaxTasks > MaxSeqTasks THEN MaxTasks ELSE MaxSeqTasks)
Callers == 1..NumCallers
\* One lock per SQLiteTaskQueue object; at most one object per caller.
QueueObjs == Callers
\* Python values a handler may return, written as Python literals.
\* **kwargs of enqueue: none, or the keyword max_retries=2.
NoKwargs == {}
KwargsValues == {NoKwargs, {<<"max_retries", DEFAULT_MAX_RETRIES - 1>>}}

PyValues == {"None", "False", "0", "''", "[]", "{}", "1", "'a'"}
MinutesPerDay == 24 * 60

\* task names: one that worker 1 has a handler for, one nobody registered
TaskNames == {"process_pdf", "test_task"}

\* self.task_registry of each worker, as filled by register_task before start
TaskRegistry(c) == IF c = 1 THEN {"process_pdf"} ELSE {}

\* the messages process_task passes to fail_task
UnknownTaskMessage == "unknown task type"
TaskFailedMessage == "task failed"

NoTaskDict == [id |-> NoTask, task_name |-> NULLTEXT]

\* retryable_exceptions=(RetryableError, ConnectionError, TimeoutError)
RetryableExceptions == {"RetryableError", "ConnectionError", "TimeoutError"}

\* exception classes an operation may raise that are Exceptions but neither
\* retryable nor NonRetryableError, and classes that are no Exception
OtherExceptions == {"ValueError"}
BaseExceptions == {"SystemExit"}

\* the exception instance of class type raised by invocation number n
Exc(type, n) == [type |-> type, at |-> n]

\* NonRetryableError(msg, ErrorType.UNKNOWN_ERROR, e)
UnknownError(e) ==
    [type |-> "NonRetryableError", error_type |-> "unknown_error", original_error |-> e]

\* `raise last_exception` with last_exception = None
RaiseNone == [type |-> "TypeError", at |-> 0]

NoneValue == [type |-> "None", at |-> 0]

\* the value returned by invocation number n of the wrapped function
Value(n) == [type |-> "value", at |-> n]

\* TaskErrorTracker: history limit and what a trim keeps, should_skip_task's
\* default max_errors
HISTORY_LIMIT == 1000
HISTORY_KEEP == 500
DEFAULT_MAX_ERRORS == 5

\* process_document: should_skip_task(file_id, max_errors=3) and
\* self.retry(countdown=60, max_retries=2)
SKIP_MAX_ERRORS == 3
CELERY_MAX_RETRIES == 2

VARIABLES
    task_queue,   \* the table: a function from the ids present to their rows
    next_id,      \* the next fresh id (uuid4 never repeats)
    clock,        \* datetime.now(), in minutes
    queue_of,     \* the SQLiteTaskQueue object each caller holds
    lock,         \* lock[q]: is self.lock of object q held
    pc,           \* where each caller is: "idle", "dequeue", "fail_task"
    local,        \* the locals of the call in progress
    last,         \* history: the last call that returned (op, id, arg, ret, err)
    claimed,      \* history: has dequeue returned the task since it was last rescheduled
    fail_calls,   \* history: fail_task(id, msg) calls returned, -1 once not a plain sequence
    failed_at,    \* history: when the task last became failed
    burst_m,      \* history: claimable tasks when the burst of dequeues began
    burst_got,    \* history: what each caller's dequeue of the burst returned
    wpc,          \* where each SQLiteTaskWorker is in start and process_task
    task,         \* the task dict each worker got from dequeue
    running,      \* self.running of each worker
    wrapper,      \* the frame of one call of retry_with_backoff's wrapper
    invoked,      \* history: what each invocation of the wrapped function did
    slept,        \* history: the delays the wrapper slept, in order
    error_counts, \* TaskErrorTracker.error_counts: a dict from task ids to counts
    error_history,\* TaskErrorTracker.error_history: a list of error records
    recorded,     \* history: every error record ever appended, in order
    asked,        \* history: the last should_skip_task call and its answer
    failure,      \* the exception handed to the classifier
    handled,      \* what the classifier returned for it
    file_record,  \* the document's row of the files table
    processing_logs, \* the processing_logs table: (stage, status) in insertion order
    opc,          \* where process_document is: 0 no run, else a position of Program
    stage_attempt, \* the loop index of the retry wrapper of the stage being called
    in_flight,    \* the stage functions that have been called and have not returned
    chunks,       \* len(chunks) of the run
    caught,       \* the exception process_document caught or raised
    request,      \* the Celery request of the run: retries, delivery, outcome
    stage_calls,  \* history: the stage functions invoked in the run and how each ended, in order
    progress_seq, \* history: the progress values the run wrote, in order
    run_start,    \* history: the file record, the number of logs and the error count when the run began
    threads,      \* the threads of one process inside record_error: position and locals
    db_call,      \* history: the last call made on the DatabaseManager directly
    handler_calls \* history: how many times a task's handler has been invoked

prog_vars == <<task_queue, next_id, clock, queue_of, lock, pc, local>>

hist_vars == <<last, claimed, fail_calls, failed_at, burst_m, burst_got>>

worker_vars == <<wpc, task, running>>

wrapper_vars == <<wrapper, invoked, slept>>

tracker_vars == <<error_counts, error_history, recorded, asked>>

queue_vars == <<prog_vars, hist_vars>>

classifier_vars == <<failure, handled>>

pipeline_vars == <<file_record, processing_logs, opc, stage_attempt, in_flight, chunks,
                   caught, request, stage_calls, progress_seq, run_start>>

\* the state of the specifications of concurrent and direct calls
side_vars == <<threads, db_call, handler_calls>>

\* what the specifications of the queue, worker, wrapper and tracker leave alone
doc_vars == <<classifier_vars, pipeline_vars, side_vars>>

\* what the specifications of the queue's own calls leave alone
ext_vars == <<worker_vars, wrapper_vars, tracker_vars, doc_vars>>

vars == <<task_queue, next_id, clock, queue_of, lock, pc, local,
          last, claimed, fail_calls, failed_at, burst_m, burst_got,
          wpc, task, running, wrapper, invoked, slept,
          error_counts, error_history, recorded, asked,
          failure, handled,
          file_record, processing_logs, opc, stage_attempt, in_flight, chunks,
          caught, request, stage_calls, progress_seq, run_start,
          threads, db_call, handler_calls>>

NoLocal == [id |-> NoTask, msg |-> NULLTEXT, retry |-> FALSE,
            retry_count |-> 0, max_retries |-> 0]

NoCall == [op |-> "none", id |-> NoTask, arg |-> NULLTEXT, ret |-> NoTask, err |-> FALSE]

Call(op, id, arg, ret) == [op |-> op, id |-> id, arg |-> arg, ret |-> ret, err |-> FALSE]

\* ----------------------------------------------------------- pure helpers

\* `if result` in complete_task: Python truthiness of the handler's value.
Truthy(v) == v \notin {"None", "False", "0", "''", "[]", "{}"}

\* json.dumps on the values of PyValues.
JsonDumps(v) ==
    CASE v = "None" -> "null"
      [] v = "False" -> "false"
      [] v = "0" -> "0"
      [] v = "''" -> "\"\""
      [] v = "[]" -> "[]"
      [] v = "{}" -> "{}"
      [] v = "1" -> "1"
      [] v = "'a'" -> "\"a\""

\* What a reader of the result column gets back: NULL is None, text is JSON.
JsonLoads(s) ==
    CASE s = NULLTEXT -> "None"
      [] s = "null" -> "None"
      [] s = "false" -> "False"
      [] s = "0" -> "0"
      [] s = "\"\"" -> "''"
      [] s = "[]" -> "[]"
      [] s = "{}" -> "{}"
      [] s = "1" -> "1"
      [] s = "\"a\"" -> "'a'"

\* The value complete_task binds to the result column.
StoredResult(v) == IF Truthy(v) THEN JsonDumps(v) ELSE NULLTEXT

\* SQL comparisons: a comparison with NULL is not true.
SqlLt(a, b) == a # NULL /\ b # NULL /\ a < b
SqlLe(a, b) == a # NULL /\ b # NULL /\ a <= b

\* Claimable without the test of the status
ClaimableWhateverStatus(r, now) ==
    r.next_retry_at = NULL \/ SqlLe(r.next_retry_at, now)

\* WHERE status IN ('pending', 'retry') AND (next_retry_at IS NULL OR next_retry_at <= ?)
Claimable(r, now) ==
    /\ r.status \in {"pending", "retry"}
    /\ (r.next_retry_at = NULL \/ SqlLe(r.next_retry_at, now))

ClaimableIds(tq, now) == {t \in DOMAIN tq : Claimable(tq[t], now)}

\* ORDER BY created_at ASC LIMIT 1: any row with the least created_at.
SelectCandidates(tq, now) ==
    {t \in ClaimableIds(tq, now) :
        \A u \in ClaimableIds(tq, now) : tq[t].created_at <= tq[u].created_at}

\* The row INSERT INTO task_queue (id, task_name, args, kwargs) creates.
NewRow(name, kwargs, now) ==
    [task_name |-> name, kwargs |-> kwargs, status |-> "pending", created_at |-> now,
     started_at |-> NULL, completed_at |-> NULL, retry_count |-> 0,
     max_retries |-> DEFAULT_MAX_RETRIES, next_retry_at |-> NULL,
     result |-> NULLTEXT, error_message |-> NULLTEXT]

\* UPDATE task_queue SET status = 'processing', started_at = ? WHERE id = ?
ClaimRow(r, now) == [r EXCEPT !.status = "processing", !.started_at = now]

\* UPDATE task_queue SET status = 'completed', completed_at = ?, result = ? WHERE id = ?
CompleteRow(r, now, v) ==
    [r EXCEPT !.status = "completed", !.completed_at = now,
              !.result = StoredResult(v)]

\* ShouldRetry with the bound off by one: retry_count <= max_retries.
ShouldRetryOffByOne(retry, retry_count, max_retries) ==
    retry /\ retry_count <= max_retries

\* ShouldRetry without the retry flag: retry_count < max_retries.
ShouldRetryIgnoresFlag(retry, retry_count, max_retries) ==
    retry_count < max_retries

\* if retry and retry_count < max_retries
ShouldRetry(retry, retry_count, max_retries) ==
    retry /\ retry_count < max_retries

\* BackoffMinutes with a fixed delay: timedelta(minutes=1).
BackoffMinutesFixed(retry_count) == 2 ^ 0

\* BackoffMinutes with a linear delay: timedelta(minutes=2 * retry_count).
BackoffMinutesLinear(retry_count) == 2 * retry_count

\* timedelta(minutes=2 ** retry_count)
BackoffMinutes(retry_count) == 2 ^ retry_count

\* UPDATE ... SET status = 'retry', retry_count = ?, next_retry_at = ?, error_message = ?
RetryRow(r, now, msg, retry_count) ==
    [r EXCEPT !.status = "retry", !.retry_count = retry_count + 1,
              !.next_retry_at = now + BackoffMinutes(retry_count),
              !.error_message = msg]

\* UPDATE ... SET status = 'failed', error_message = ?
FailedRow(r, msg) == [r EXCEPT !.status = "failed", !.error_message = msg]

\* The UPDATE fail_task issues, chosen by the values its SELECT read.
FailRow(r, now, msg, retry, retry_count, max_retries) ==
    IF ShouldRetry(retry, retry_count, max_retries)
    THEN RetryRow(r, now, msg, retry_count)
    ELSE FailedRow(r, msg)

\* RowFound without the `if not row: return` guard.
RowFoundAlways(tq, id) == TRUE

\* `if not row: return` in fail_task.
RowFound(tq, id) == id \in DOMAIN tq

\* cutoff_date = datetime.now() - timedelta(days=days)
Cutoff(now, days) == now - days * MinutesPerDay

\* CleanupDeletes by age of the claim, whatever the status.
CleanupDeletesStale(r, cutoff) ==
    /\ r.status # "pending"
    /\ SqlLt(r.started_at, cutoff)

\* DELETE ... WHERE status IN ('completed', 'failed') AND completed_at < ?
CleanupDeletes(r, cutoff) ==
    /\ r.status \in {"completed", "failed"}
    /\ SqlLt(r.completed_at, cutoff)

CleanupGone(tq, cutoff) == {t \in DOMAIN tq : CleanupDeletes(tq[t], cutoff)}

Restrict(f, S) == [x \in S |-> f[x]]

\* ------------------------------------------------------------------- Init

SharedObject == [c \in Callers |-> 1]
OwnObjects == [c \in Callers |-> c]

InitProgram ==
    /\ task_queue = <<>>
    /\ next_id = 1
    /\ clock = 0
    /\ queue_of \in {SharedObject, OwnObjects}
    /\ lock = [q \in QueueObjs |-> FALSE]
    /\ pc = [c \in Callers |-> "idle"]
    /\ local = [c \in Callers |-> NoLocal]

InitHistory ==
    /\ last = NoCall
    /\ claimed = [t \in Ids |-> FALSE]
    /\ fail_calls = [t \in Ids |-> 0]
    /\ failed_at = [t \in Ids |-> NULL]
    /\ burst_m = 0
    /\ burst_got = [c \in Callers |-> NULL]

\* SQLiteTaskWorker.__init__
InitWorker ==
    /\ wpc = [c \in Callers |-> "off"]
    /\ task = [c \in Callers |-> NoTaskDict]
    /\ running = [c \in Callers |-> FALSE]

\* no call of a wrapped function is in progress
NoWrapper ==
    [max_retries |-> 0, base_delay |-> 0, max_delay |-> 0, backoff_factor |-> 0,
     state |-> "idle", attempt |-> 0, last_exception |-> NoneValue,
     result |-> NoneValue]

InitWrapper ==
    /\ wrapper = NoWrapper
    /\ invoked = <<>>
    /\ slept = <<>>

NoAsk == [task_id |-> NULLTEXT, max_errors |-> 0, ret |-> FALSE]

\* TaskErrorTracker.__init__
InitTracker ==
    /\ error_counts = <<>>
    /\ error_history = <<>>
    /\ recorded = <<>>
    /\ asked = NoAsk

\* no exception has been handed to the classifier
InitClassifier ==
    /\ failure = [type |-> "None", error_type |-> NULLTEXT, message |-> {},
                  original_error |-> NULLTEXT]
    /\ handled = failure

\* the Celery request when no task for the document has been sent
NoRequest == [retries |-> 0, explicit |-> FALSE, state |-> "none",
              result |-> "none", runs |-> 0]

\* create_file_record: status="pending", progress=0 and the column defaults
NewFileRecord ==
    [status |-> "pending", progress |-> 0, message |-> "waiting",
     total_pages |-> 0, chunks_count |-> 0, error_count |-> 0, last_error |-> NULLTEXT]

\* the document has been uploaded and nothing has been asked for it
InitPipeline ==
    /\ file_record = NewFileRecord
    /\ processing_logs = <<>>
    /\ opc = 0
    /\ stage_attempt = 0
    /\ in_flight = {}
    /\ chunks = 0
    /\ caught = [type |-> "None", error_type |-> NULLTEXT, message |-> {},
                 original_error |-> NULLTEXT]
    /\ request = NoRequest
    /\ stage_calls = <<>>
    /\ progress_seq = <<>>
    /\ run_start = [record |-> NewFileRecord, logs |-> 0, errors |-> 0]

\* no thread is inside record_error
NoThread == [at |-> "idle", task_id |-> NULLTEXT, count |-> 0]

\* no call has been made on the DatabaseManager directly
NoDbCall == [op |-> "none", n |-> 0, status |-> NULLTEXT, progress |-> 0,
             message |-> NULLTEXT, total_pages |-> 0, chunks_count |-> 0]

InitSide ==
    /\ threads = [c \in Callers |-> NoThread]
    /\ db_call = NoDbCall
    /\ handler_calls = [t \in Ids |-> 0]

InitExt ==
    InitWorker /\ InitWrapper /\ InitTracker /\ InitClassifier /\ InitPipeline /\ InitSide

Init == InitProgram /\ InitHistory /\ InitExt

\* ------------------------------------------------- the program's actions

\* enqueue(task_name, *args, **kwargs)
Enqueue(c, name, kwargs) ==
    /\ pc[c] = "idle"
    /\ next_id \in Ids
    /\ task_queue' = [t \in DOMAIN task_queue \cup {next_id} |->
                        IF t = next_id THEN NewRow(name, kwargs, clock) ELSE task_queue[t]]
    /\ next_id' = next_id + 1
    /\ UNCHANGED <<clock, queue_of, lock, pc, local>>

\* dequeue, up to its SELECT: take self.lock, select, return None on no row.
DequeueSelect(c) ==
    /\ pc[c] = "idle"
    /\ ~lock[queue_of[c]]
    /\ IF SelectCandidates(task_queue, clock) = {}
       THEN UNCHANGED <<lock, pc, local>>
       ELSE /\ \E t \in SelectCandidates(task_queue, clock) :
                 local' = [local EXCEPT ![c] =
                             [NoLocal EXCEPT !.id = t,
                                             !.retry_count = task_queue[t].retry_count]]
            /\ lock' = [lock EXCEPT ![queue_of[c]] = TRUE]
            /\ pc' = [pc EXCEPT ![c] = "dequeue"]
    /\ UNCHANGED <<task_queue, next_id, clock, queue_of>>

\* dequeue, from its UPDATE: mark the selected row, release the lock, return it.
DequeueUpdate(c) ==
    /\ pc[c] = "dequeue"
    /\ task_queue' = IF local[c].id \in DOMAIN task_queue
                     THEN [task_queue EXCEPT ![local[c].id] = ClaimRow(@, clock)]
                     ELSE task_queue
    /\ lock' = [lock EXCEPT ![queue_of[c]] = FALSE]
    /\ pc' = [pc EXCEPT ![c] = "idle"]
    /\ local' = [local EXCEPT ![c] = NoLocal]
    /\ UNCHANGED <<next_id, clock, queue_of>>

\* complete_task(task_id, result): one UPDATE ... WHERE id = ?
CompleteTask(c, id, v) ==
    /\ pc[c] = "idle"
    /\ task_queue' = IF id \in DOMAIN task_queue
                     THEN [task_queue EXCEPT ![id] = CompleteRow(@, clock, v)]
                     ELSE task_queue
    /\ UNCHANGED <<next_id, clock, queue_of, lock, pc, local>>

\* fail_task, up to its SELECT: return at once when there is no such row.
\* Reading row['retry_count'] of no row raises.
FailRead(c, id, msg, retry) ==
    /\ pc[c] = "idle"
    /\ IF RowFound(task_queue, id) /\ id \in DOMAIN task_queue
       THEN /\ pc' = [pc EXCEPT ![c] = "fail_task"]
            /\ local' = [local EXCEPT ![c] =
                           [id |-> id, msg |-> msg, retry |-> retry,
                            retry_count |-> task_queue[id].retry_count,
                            max_retries |-> task_queue[id].max_retries]]
       ELSE UNCHANGED <<pc, local>>
    /\ UNCHANGED <<task_queue, next_id, clock, queue_of, lock>>

\* Does fail_task(id, ...) raise at its SELECT?
FailRaises(tq, id) == RowFound(tq, id) /\ id \notin DOMAIN tq

\* fail_task, from its UPDATE ... WHERE id = ?
FailWrite(c) ==
    /\ pc[c] = "fail_task"
    /\ task_queue' =
         IF local[c].id \in DOMAIN task_queue
         THEN [task_queue EXCEPT ![local[c].id] =
                 FailRow(@, clock, local[c].msg, local[c].retry,
                         local[c].retry_count, local[c].max_retries)]
         ELSE task_queue
    /\ pc' = [pc EXCEPT ![c] = "idle"]
    /\ local' = [local EXCEPT ![c] = NoLocal]
    /\ UNCHANGED <<next_id, clock, queue_of, lock>>

\* cleanup_old_tasks(days): one DELETE
CleanupOldTasks(c, days) ==
    /\ pc[c] = "idle"
    /\ task_queue' = Restrict(task_queue,
                        DOMAIN task_queue \ CleanupGone(task_queue, Cutoff(clock, days)))
    /\ UNCHANGED <<next_id, clock, queue_of, lock, pc, local>>

\* Time passes: a minute, or a day.
Tick ==
    /\ clock % MinutesPerDay < MaxClock
    /\ clock' = clock + 1
    /\ UNCHANGED <<task_queue, next_id, queue_of, lock, pc, local>>

TickDay ==
    /\ clock \div MinutesPerDay < MaxDays
    /\ clock' = clock + MinutesPerDay
    /\ UNCHANGED <<task_queue, next_id, queue_of, lock, pc, local>>

\* ------------------------------------------------------ SQLiteTaskWorker

\* start(): self.running = True, enter the loop
WorkerStart(c) ==
    /\ wpc[c] = "off"
    /\ wpc' = [wpc EXCEPT ![c] = "loop"]
    /\ running' = [running EXCEPT ![c] = TRUE]
    /\ UNCHANGED <<task, prog_vars>>

\* stop(), called from elsewhere: self.running = False
WorkerStop(c) ==
    /\ wpc[c] \notin {"off", "stopped", "crashed"}
    /\ running[c]
    /\ running' = [running EXCEPT ![c] = FALSE]
    /\ UNCHANGED <<wpc, task, prog_vars>>

\* `while self.running` finds it false
WorkerExit(c) ==
    /\ wpc[c] = "loop"
    /\ ~running[c]
    /\ wpc' = [wpc EXCEPT ![c] = "stopped"]
    /\ UNCHANGED <<running, task, prog_vars>>

\* task = self.queue.dequeue(), up to the SELECT; `if not task: time.sleep(1)`.
\* The row the SELECT returned is kept in task from here on; the worker sees
\* it when dequeue returns.
WorkerDequeueSelect(c) ==
    /\ wpc[c] = "loop"
    /\ running[c]
    /\ DequeueSelect(c)
    /\ IF pc'[c] = "dequeue"
       THEN /\ wpc' = [wpc EXCEPT ![c] = "dequeue"]
            /\ task' = [task EXCEPT ![c] =
                          [id |-> local'[c].id,
                           task_name |-> task_queue[local'[c].id].task_name]]
       ELSE /\ wpc' = [wpc EXCEPT ![c] = "sleep"]
            /\ task' = task
    /\ UNCHANGED running

\* dequeue returns the task; self.process_task(task)
WorkerDequeueUpdate(c) ==
    /\ wpc[c] = "dequeue"
    /\ DequeueUpdate(c)
    /\ wpc' = [wpc EXCEPT ![c] = "process"]
    /\ UNCHANGED <<running, task>>

\* time.sleep(1) is over; continue
WorkerWake(c) ==
    /\ wpc[c] = "sleep"
    /\ wpc' = [wpc EXCEPT ![c] = "loop"]
    /\ UNCHANGED <<running, task, prog_vars>>

\* the position after a fail_task call has run its SELECT
AfterFailRead(c) ==
    wpc' = [wpc EXCEPT ![c] = IF pc'[c] = "fail_task" THEN "fail_task" ELSE "loop"]

\* fail_task(task_id, msg, retry=True) where process_task passes retry=False
WorkerFailUnknownRetrying(c) ==
    /\ wpc[c] = "process"
    /\ task[c].task_name \notin TaskRegistry(c)
    /\ FailRead(c, task[c].id, UnknownTaskMessage, TRUE)
    /\ AfterFailRead(c)
    /\ UNCHANGED <<running, task>>

\* if task_name not in self.task_registry: fail_task(..., retry=False); return
WorkerFailUnknown(c) ==
    /\ wpc[c] = "process"
    /\ task[c].task_name \notin TaskRegistry(c)
    /\ FailRead(c, task[c].id, UnknownTaskMessage, FALSE)
    /\ AfterFailRead(c)
    /\ UNCHANGED <<running, task>>

\* func = self.task_registry[task_name]; func(*args, **kwargs) is called
WorkerInvoke(c) ==
    /\ wpc[c] = "process"
    /\ task[c].task_name \in TaskRegistry(c)
    /\ wpc' = [wpc EXCEPT ![c] = "handler"]
    /\ UNCHANGED <<running, task, prog_vars>>

\* the handler returns result; self.queue.complete_task(task_id, result)
WorkerComplete(c, v) ==
    /\ wpc[c] = "handler"
    /\ CompleteTask(c, task[c].id, v)
    /\ wpc' = [wpc EXCEPT ![c] = "loop"]
    /\ UNCHANGED <<running, task>>

\* a handler failure that is swallowed: no fail_task call
WorkerHandlerRaisesSwallowed(c) ==
    /\ wpc[c] = "handler"
    /\ wpc' = [wpc EXCEPT ![c] = "loop"]
    /\ UNCHANGED <<running, task, prog_vars>>

\* the handler raises an Exception; `except Exception`: fail_task(task_id, msg)
WorkerHandlerRaises(c) ==
    /\ wpc[c] = "handler"
    /\ FailRead(c, task[c].id, TaskFailedMessage, TRUE)
    /\ AfterFailRead(c)
    /\ UNCHANGED <<running, task>>

\* the fail_task call of process_task runs its UPDATE and returns; back to
\* the loop
WorkerFailWrite(c) ==
    /\ wpc[c] = "fail_task"
    /\ FailWrite(c)
    /\ wpc' = [wpc EXCEPT ![c] = "loop"]
    /\ UNCHANGED <<running, task>>

\* KeyboardInterrupt while the handler runs or the worker sleeps;
\* `except KeyboardInterrupt`: self.running = False; break
WorkerInterrupted(c) ==
    /\ wpc[c] \in {"handler", "sleep"}
    /\ running' = [running EXCEPT ![c] = FALSE]
    /\ wpc' = [wpc EXCEPT ![c] = "stopped"]
    /\ UNCHANGED <<task, prog_vars>>

\* the handler raises SystemExit or another BaseException that is no
\* Exception: neither `except Exception` catches it and it leaves start()
WorkerHandlerExits(c) ==
    /\ wpc[c] = "handler"
    /\ wpc' = [wpc EXCEPT ![c] = "crashed"]
    /\ UNCHANGED <<running, task, prog_vars>>

\* --------------------------------------------------- retry_with_backoff

\* delay = min(base_delay * (backoff_factor ** attempt), max_delay), without
\* the min
DelayUncapped(base_delay, backoff_factor, attempt, max_delay) ==
    base_delay * backoff_factor ^ attempt

\* delay = min(base_delay * (backoff_factor ** attempt), max_delay)
Delay(base_delay, backoff_factor, attempt, max_delay) ==
    LET d == base_delay * backoff_factor ^ attempt
    IN IF d < max_delay THEN d ELSE max_delay

\* wrapper(*args, **kwargs) is entered: last_exception = None and the for
\* loop over range(max_retries + 1) starts, or has nothing to run
WrapperFrame(max_retries, base_delay, max_delay, backoff_factor) ==
    [max_retries |-> max_retries, base_delay |-> base_delay,
     max_delay |-> max_delay, backoff_factor |-> backoff_factor,
     state |-> IF 0 < max_retries + 1 THEN "try" ELSE "exhausted",
     attempt |-> 0, last_exception |-> NoneValue, result |-> NoneValue]

\* the wrapper raises e to its caller
Raise(e) ==
    wrapper' = [wrapper EXCEPT !.state = "raised", !.result = e]

\* the except branch of the retryable exceptions, for the failure e
Retry(e) ==
    IF wrapper.attempt = wrapper.max_retries
    THEN /\ wrapper' = [wrapper EXCEPT !.state = "raised", !.result = e,
                                        !.last_exception = e]
         /\ slept' = slept
    ELSE /\ wrapper' = [wrapper EXCEPT !.state = "sleep", !.last_exception = e]
         /\ slept' = Append(slept, Delay(wrapper.base_delay, wrapper.backoff_factor,
                                         wrapper.attempt, wrapper.max_delay))

\* the wrapped function returns, and the wrapper goes on as after a
\* retryable failure
WrapperReturnsAndRetries ==
    /\ wrapper.state = "try"
    /\ invoked' = Append(invoked, Value(Len(invoked) + 1))
    /\ Retry(Value(Len(invoked) + 1))

\* return func(*args, **kwargs)
WrapperReturns ==
    /\ wrapper.state = "try"
    /\ invoked' = Append(invoked, Value(Len(invoked) + 1))
    /\ wrapper' = [wrapper EXCEPT !.state = "returned",
                                   !.result = Value(Len(invoked) + 1)]
    /\ slept' = slept

\* func raises one of retryable_exceptions
WrapperRetryable(type) ==
    /\ wrapper.state = "try"
    /\ invoked' = Append(invoked, Exc(type, Len(invoked) + 1))
    /\ Retry(Exc(type, Len(invoked) + 1))

\* time.sleep(delay) is over: the next iteration of the for loop, if any
WrapperSleepEnds ==
    /\ wrapper.state = "sleep"
    /\ wrapper' = [wrapper EXCEPT
                      !.attempt = @ + 1,
                      !.state = IF wrapper.attempt + 1 < wrapper.max_retries + 1
                                THEN "try" ELSE "exhausted"]
    /\ UNCHANGED <<invoked, slept>>

\* func raises NonRetryableError, and it is handled as a retryable failure
WrapperNonRetryableRetried ==
    /\ wrapper.state = "try"
    /\ invoked' = Append(invoked, Exc("NonRetryableError", Len(invoked) + 1))
    /\ Retry(Exc("NonRetryableError", Len(invoked) + 1))

\* func raises NonRetryableError; `except NonRetryableError: raise`
WrapperNonRetryable ==
    /\ wrapper.state = "try"
    /\ invoked' = Append(invoked, Exc("NonRetryableError", Len(invoked) + 1))
    /\ Raise(Exc("NonRetryableError", Len(invoked) + 1))
    /\ slept' = slept

\* func raises another Exception, and it is raised on as it is
WrapperUnknownUnwrapped(type) ==
    /\ wrapper.state = "try"
    /\ invoked' = Append(invoked, Exc(type, Len(invoked) + 1))
    /\ Raise(Exc(type, Len(invoked) + 1))
    /\ slept' = slept

\* func raises another Exception;
\* `except Exception: raise NonRetryableError(..., ErrorType.UNKNOWN_ERROR, e)`
WrapperUnknown(type) ==
    /\ wrapper.state = "try"
    /\ invoked' = Append(invoked, Exc(type, Len(invoked) + 1))
    /\ Raise(UnknownError(Exc(type, Len(invoked) + 1)))
    /\ slept' = slept

\* func raises a BaseException that is no Exception: no except clause
\* matches and it leaves the wrapper as it is
WrapperBaseException(type) ==
    /\ wrapper.state = "try"
    /\ invoked' = Append(invoked, Exc(type, Len(invoked) + 1))
    /\ Raise(Exc(type, Len(invoked) + 1))
    /\ slept' = slept

\* the for loop is over without a return or raise: `raise last_exception`,
\* which raises TypeError when last_exception is None
WrapperLoopEnds ==
    /\ wrapper.state = "exhausted"
    /\ Raise(IF wrapper.last_exception = NoneValue THEN RaiseNone
                                                   ELSE wrapper.last_exception)
    /\ UNCHANGED <<invoked, slept>>

\* ----------------------------------------------------- TaskErrorTracker

\* the task ids (document ids) errors are recorded for
TrackerIds == {"doc1", "doc2"}

\* the max_errors passed to should_skip_task: process_document's 3 and the
\* default
Thresholds == {3, DEFAULT_MAX_ERRORS}

\* the exception passed to the n-th record_error call: str(error) is n
ErrorOf(n) == [type |-> "Exception", message |-> n]

\* self.error_counts.get(task_id, 0)
GetErrorCount(counts, task_id) ==
    IF task_id \in DOMAIN counts THEN counts[task_id] ELSE 0

\* should_skip_task with > in place of >=
ShouldSkipTaskStrict(counts, task_id, max_errors) ==
    GetErrorCount(counts, task_id) > max_errors

\* return self.get_error_count(task_id) >= max_errors
ShouldSkipTask(counts, task_id, max_errors) ==
    GetErrorCount(counts, task_id) >= max_errors

\* error_record = {"task_id": ..., "error_type": ..., "error_message": ...,
\* "timestamp": time.time()}
ErrorRecord(task_id, error, now) ==
    [task_id |-> task_id, error_type |-> error.type,
     error_message |-> error.message, timestamp |-> now]

\* a trim that keeps the oldest entries: self.error_history[:500]
TrimKeepsOldest(h) ==
    IF Len(h) > HISTORY_LIMIT THEN SubSeq(h, 1, HISTORY_KEEP) ELSE h

\* if len(self.error_history) > 1000:
\*     self.error_history = self.error_history[-500:]
Trim(h) ==
    IF Len(h) > HISTORY_LIMIT
    THEN SubSeq(h, Len(h) - HISTORY_KEEP + 1, Len(h))
    ELSE h

\* record_error(task_id, error)
RecordError(task_id, error) ==
    /\ error_counts' =
          [t \in DOMAIN error_counts \cup {task_id} |->
              IF t = task_id THEN GetErrorCount(error_counts, task_id) + 1
                             ELSE error_counts[t]]
    /\ error_history' = Trim(Append(error_history, ErrorRecord(task_id, error, clock)))
    /\ recorded' = Append(recorded, ErrorRecord(task_id, error, clock))
    /\ asked' = asked

\* should_skip_task(task_id, max_errors)
ShouldSkipTaskCall(task_id, max_errors) ==
    /\ asked' = [task_id |-> task_id, max_errors |-> max_errors,
                 ret |-> ShouldSkipTask(error_counts, task_id, max_errors)]
    /\ UNCHANGED <<error_counts, error_history, recorded>>

\* ------------------------------------------- ErrorHandler, the classifier
\* A message is modelled by the set of the recognised keywords that
\* str(error).lower() contains.

\* class ErrorType(Enum)
ErrorTypes == {"network_error", "api_error", "file_error", "parsing_error",
               "database_error", "unknown_error"}

\* the keywords log_and_handle_error dispatches on
ApiDispatch == {"openai", "api"}
FileDispatch == {"file", "path"}
DatabaseDispatch == {"database", "chroma"}
ParsingDispatch == {"parse", "mineru"}
DispatchKeywords == ApiDispatch \cup FileDispatch \cup DatabaseDispatch \cup ParsingDispatch

\* the keywords handle_api_error, handle_database_error and
\* handle_parsing_error look for
ApiKeywords == {"rate limit", "quota", "timeout", "connection", "network",
                "unauthorized", "authentication", "bad request", "invalid"}
DatabaseKeywords == {"connection", "timeout", "lock", "busy", "disk", "space"}
ParsingKeywords == {"corrupted", "damaged", "unsupported", "format", "memory", "resource"}

Keywords == DispatchKeywords \cup ApiKeywords \cup DatabaseKeywords \cup ParsingKeywords

\* `"a" in error_msg or "b" in error_msg`
Has(message, keywords) == message \cap keywords # {}

\* exception classes that are neither RetryableError nor NonRetryableError
RawClasses == {"ValueError", "FileNotFoundError", "PermissionError", "OSError",
               "ConnectionError"}
TypedClasses == {"RetryableError", "NonRetryableError"}

\* isinstance(e, IOError): IOError is OSError, the base of these classes
IsIOError(type) ==
    type \in {"OSError", "FileNotFoundError", "PermissionError", "ConnectionError"}

\* an exception of a class of RawClasses with the message
RawError(type, message) ==
    [type |-> type, error_type |-> NULLTEXT, message |-> message,
     original_error |-> NULLTEXT]

\* RetryableError(message, error_type, original_error)
RetryableError(message, error_type, original_error) ==
    [type |-> "RetryableError", error_type |-> error_type, message |-> message,
     original_error |-> original_error]

\* NonRetryableError(message, error_type, original_error)
NonRetryableError(message, error_type, original_error) ==
    [type |-> "NonRetryableError", error_type |-> error_type, message |-> message,
     original_error |-> original_error]

NoError == [type |-> "None", error_type |-> NULLTEXT, message |-> {},
            original_error |-> NULLTEXT]

\* the keywords of the text the handlers put an argument into: the api name
\* "OpenAI", and the contexts ("parsing", "document_processing", ...), which
\* hold none
TextKeywords(text) == IF text = "OpenAI" THEN {"openai"} ELSE {}

\* ErrorHandler.handle_file_error(e, file_path)
HandleFileError(e, file_path) ==
    CASE e.type = "FileNotFoundError" ->
            NonRetryableError(TextKeywords(file_path), "file_error", e)
      [] e.type = "PermissionError" ->
            NonRetryableError(TextKeywords(file_path), "file_error", e)
      [] e.type \notin {"FileNotFoundError", "PermissionError"} /\ IsIOError(e.type) ->
            RetryableError(TextKeywords(file_path), "file_error", e)
      [] OTHER ->
            NonRetryableError(e.message, "file_error", e)

\* ErrorHandler.handle_api_error(e, api_name)
HandleApiError(e, api_name) ==
    LET error_msg == e.message
        named == e.message \cup TextKeywords(api_name)
    IN CASE Has(error_msg, {"rate limit", "quota"}) ->
               RetryableError(named \cup {"api"}, "api_error", e)
         [] ~Has(error_msg, {"rate limit", "quota"})
            /\ Has(error_msg, {"timeout"}) ->
               RetryableError(named \cup {"api"}, "api_error", e)
         [] ~Has(error_msg, {"rate limit", "quota", "timeout"})
            /\ Has(error_msg, {"connection", "network"}) ->
               RetryableError(named, "network_error", e)
         [] ~Has(error_msg, {"rate limit", "quota", "timeout", "connection", "network"})
            /\ Has(error_msg, {"unauthorized", "authentication"}) ->
               NonRetryableError(named, "api_error", e)
         [] ~Has(error_msg, {"rate limit", "quota", "timeout", "connection", "network",
                             "unauthorized", "authentication"})
            /\ Has(error_msg, {"bad request", "invalid"}) ->
               NonRetryableError(named, "api_error", e)
         [] OTHER ->
               RetryableError(named \cup {"api"}, "api_error", e)

\* ErrorHandler.handle_database_error(e, operation)
HandleDatabaseError(e, operation) ==
    LET error_msg == e.message
        named == e.message \cup TextKeywords(operation)
    IN CASE Has(error_msg, {"connection", "timeout"}) ->
               RetryableError(named, "database_error", e)
         [] ~Has(error_msg, {"connection", "timeout"})
            /\ Has(error_msg, {"lock", "busy"}) ->
               RetryableError(named, "database_error", e)
         [] ~Has(error_msg, {"connection", "timeout", "lock", "busy"})
            /\ Has(error_msg, {"disk", "space"}) ->
               NonRetryableError(named, "database_error", e)
         [] OTHER ->
               RetryableError(named, "database_error", e)

\* ErrorHandler.handle_parsing_error(e, file_name)
HandleParsingError(e, file_name) ==
    LET error_msg == e.message
        named == e.message \cup TextKeywords(file_name)
    IN CASE Has(error_msg, {"corrupted", "damaged"}) ->
               NonRetryableError(named, "parsing_error", e)
         [] ~Has(error_msg, {"corrupted", "damaged"})
            /\ Has(error_msg, {"unsupported", "format"}) ->
               NonRetryableError(named, "parsing_error", e)
         [] ~Has(error_msg, {"corrupted", "damaged", "unsupported", "format"})
            /\ Has(error_msg, {"memory", "resource"}) ->
               RetryableError(named, "parsing_error", e)
         [] OTHER ->
               RetryableError(named, "parsing_error", e)

\* what log_and_handle_error(task_id, error, context) returns
HandledError(error, context) ==
    CASE Has(error.message, ApiDispatch) ->
            HandleApiError(error, "OpenAI")
      [] ~Has(error.message, ApiDispatch)
         /\ Has(error.message, FileDispatch) ->
            HandleFileError(error, context)
      [] ~Has(error.message, ApiDispatch \cup FileDispatch)
         /\ Has(error.message, DatabaseDispatch) ->
            HandleDatabaseError(error, context)
      [] ~Has(error.message, ApiDispatch \cup FileDispatch \cup DatabaseDispatch)
         /\ Has(error.message, ParsingDispatch) ->
            HandleParsingError(error, context)
      [] OTHER ->
            RetryableError(error.message, "unknown_error", error)

\* a call of ErrorHandler.handle_api_error(failure, api_name)
HandleApiErrorCall(api_name) ==
    /\ handled = NoError
    /\ handled' = HandleApiError(failure, api_name)
    /\ failure' = failure

\* a call of log_and_handle_error(task_id, failure, context)
LogAndHandleErrorCall(task_id, context) ==
    /\ handled = NoError
    /\ RecordError(task_id, failure)
    /\ handled' = HandledError(failure, context)
    /\ failure' = failure

\* ------------------------------------------------------ process_document
\* One document of the files table and the Celery task process_document for
\* it.  The status store answers every call; the document is not deleted.
\* No run of the model reports a page count: total_pages stays as it is.

\* the file_id of the document
FileId == "doc1"

\* the stage functions, in the order process_document calls them
Stages == <<"parsing", "chunking", "embedding", "storing">>

\* every stage given the budget of the embedding stage: max_retries=3
StageMaxRetriesAllThree(stage) == 3

\* @retry_with_backoff(max_retries=...) of the four ..._with_retry functions
StageMaxRetries(stage) ==
    CASE stage = "parsing" -> 2
      [] stage = "chunking" -> 2
      [] stage = "embedding" -> 3
      [] stage = "storing" -> 2

\* what a stage function may raise: an error no pattern matches, which is
\* classified retryable, and a corrupted document reported by MinerU, which
\* is classified non-retryable
StageFailures ==
    {RawError("ValueError", {}),
     RawError("ValueError", {"mineru", "corrupted"})}

StatusStep(status, progress, message) ==
    [op |-> "status", status |-> status, progress |-> progress, message |-> message,
     stage |-> NULLTEXT]

StageStep(stage) ==
    [op |-> "stage", status |-> NULLTEXT, progress |-> 0, message |-> NULLTEXT,
     stage |-> stage]

LogStep(stage) ==
    [op |-> "log", status |-> "completed", progress |-> 0, message |-> NULLTEXT,
     stage |-> stage]

ResultsStep ==
    [op |-> "results", status |-> NULLTEXT, progress |-> 0, message |-> NULLTEXT,
     stage |-> NULLTEXT]

ReturnStep ==
    [op |-> "return", status |-> NULLTEXT, progress |-> 0, message |-> NULLTEXT,
     stage |-> NULLTEXT]

\* the body of process_document with the embedding stage's progress written
\* as 50
ProgramProgressFallsBack ==
    <<StatusStep("parsing", 10, "parsing"),
      StageStep("parsing"),
      LogStep("parsing"),
      StatusStep("parsing", 30, "parsed"),
      StatusStep("chunking", 40, "chunking"),
      StageStep("chunking"),
      LogStep("chunking"),
      ResultsStep,
      StatusStep("chunking", 60, "chunked"),
      StatusStep("embedding", 50, "embedding"),
      StageStep("embedding"),
      LogStep("embedding"),
      StatusStep("embedding", 90, "embedded"),
      StatusStep("storing", 95, "storing"),
      StageStep("storing"),
      LogStep("storing"),
      StatusStep("completed", 100, "done"),
      ReturnStep>>

\* the body of process_document with the parsing stage's completed log
\* written after the chunking stage has been called
ProgramLogsLate ==
    <<StatusStep("parsing", 10, "parsing"),
      StageStep("parsing"),
      StatusStep("parsing", 30, "parsed"),
      StatusStep("chunking", 40, "chunking"),
      StageStep("chunking"),
      LogStep("parsing"),
      LogStep("chunking"),
      ResultsStep,
      StatusStep("chunking", 60, "chunked"),
      StatusStep("embedding", 70, "embedding"),
      StageStep("embedding"),
      LogStep("embedding"),
      StatusStep("embedding", 90, "embedded"),
      StatusStep("storing", 95, "storing"),
      StageStep("storing"),
      LogStep("storing"),
      StatusStep("completed", 100, "done"),
      ReturnStep>>

\* the body of process_document after the file record has been fetched:
\* lines 123 to 185, one entry per call that writes or invokes
Program ==
    <<StatusStep("parsing", 10, "parsing"),
      StageStep("parsing"),
      LogStep("parsing"),
      StatusStep("parsing", 30, "parsed"),
      StatusStep("chunking", 40, "chunking"),
      StageStep("chunking"),
      LogStep("chunking"),
      ResultsStep,
      StatusStep("chunking", 60, "chunked"),
      StatusStep("embedding", 70, "embedding"),
      StageStep("embedding"),
      LogStep("embedding"),
      StatusStep("embedding", 90, "embedded"),
      StatusStep("storing", 95, "storing"),
      StageStep("storing"),
      LogStep("storing"),
      StatusStep("completed", 100, "done"),
      ReturnStep>>

\* the step process_document is at, when it is in its try body
Running(op) ==
    /\ request.state = "running"
    /\ opc \in 1..Len(Program)
    /\ Program[opc].op = op

\* the processing_logs rows tasks.update_file_status adds for the status
StatusLogs(status) ==
    CASE status \in {"parsing", "chunking", "embedding", "storing"} ->
            <<[stage |-> status, status |-> "started"]>>
      [] status = "completed" -> <<[stage |-> "processing", status |-> "completed"]>>
      [] status = "error" -> <<[stage |-> "processing", status |-> "failed"]>>
      [] OTHER -> <<>>

\* update_file_status that leaves last_error as it was
UpdatedRecordKeepsLastError(record, status, progress, message) ==
    [record EXCEPT !.status = status, !.progress = progress, !.message = message,
                   !.error_count = IF status = "error" THEN @ + 1 ELSE @]

\* DatabaseManager.update_file_status(file_id, status, progress, message)
UpdatedRecord(record, status, progress, message) ==
    [record EXCEPT !.status = status, !.progress = progress, !.message = message,
                   !.error_count = IF status = "error" THEN @ + 1 ELSE @,
                   !.last_error = IF status = "error" THEN message ELSE @]

\* tasks.update_file_status(file_id, status, progress, message)
UpdateFileStatus(status, progress, message) ==
    /\ file_record' = UpdatedRecord(file_record, status, progress, message)
    /\ processing_logs' = processing_logs \o StatusLogs(status)
    /\ progress_seq' = Append(progress_seq, progress)

\* update_file_results that writes both values whatever they are
FileResultsOverwrites(record, total_pages, chunks_count) ==
    [record EXCEPT !.total_pages = total_pages, !.chunks_count = chunks_count]

\* DatabaseManager.update_file_results(file_id, total_pages, chunks_count):
\* `if total_pages > 0` and `if chunks_count > 0`
FileResults(record, total_pages, chunks_count) ==
    [record EXCEPT !.total_pages = IF total_pages > 0 THEN total_pages ELSE @,
                   !.chunks_count = IF chunks_count > 0 THEN chunks_count ELSE @]

\* DatabaseManager.update_file_results(file_id, chunks_count=n)
UpdatedResults(record, n) == FileResults(record, 0, n)

\* POST /api/files/{file_id}/process: the record is set to pending and
\* process_document.delay(file_id) is sent
ProcessFile ==
    /\ request.state \in {"none", "returned", "raised"}
    /\ request.runs < MaxRuns
    /\ file_record' = UpdatedRecord(file_record, "pending", 0, "queued")
    /\ request' = [retries |-> 0, explicit |-> TRUE, state |-> "queued",
                   result |-> "none", runs |-> request.runs]
    /\ UNCHANGED <<processing_logs, opc, stage_attempt, in_flight, chunks, caught,
                   stage_calls, progress_seq, run_start, tracker_vars>>

\* Celery hands the task, new or retried, to a process of the worker pool
\* (worker_concurrency=3): the one that ran it before, or one whose
\* module-level error_tracker has recorded nothing yet
CeleryDelivers(fresh) ==
    /\ request.state \in {"queued", "retry"}
    /\ request.runs < MaxRuns
    /\ request' = [request EXCEPT
                      !.state = "entry",
                      !.runs = @ + 1,
                      !.retries = IF request.state = "retry" THEN @ + 1 ELSE @,
                      !.explicit = (request.state = "queued"),
                      !.result = "none"]
    /\ IF fresh
       THEN error_counts' = <<>> /\ error_history' = <<>>
       ELSE UNCHANGED <<error_counts, error_history>>
    /\ opc' = 0
    /\ stage_attempt' = 0
    /\ chunks' = 0
    /\ caught' = NoError
    /\ stage_calls' = <<>>
    /\ progress_seq' = <<>>
    /\ run_start' = [record |-> file_record, logs |-> Len(processing_logs),
                     errors |-> IF fresh THEN 0 ELSE GetErrorCount(error_counts, FileId)]
    /\ UNCHANGED <<file_record, processing_logs, in_flight, recorded, asked>>

\* should_skip_task is true, and process_document goes on as if it were false
SkipRunGoesOn ==
    /\ request.state = "entry"
    /\ ShouldSkipTaskCall(FileId, SKIP_MAX_ERRORS)
    /\ asked'.ret
    /\ request' = [request EXCEPT !.state = "running"]
    /\ opc' = 1
    /\ UNCHANGED <<file_record, processing_logs, stage_attempt, in_flight, chunks,
                   caught, stage_calls, progress_seq, run_start>>

\* lines 101 to 104: should_skip_task is true, the document is set to error
\* and the task returns
SkipRun ==
    /\ request.state = "entry"
    /\ ShouldSkipTaskCall(FileId, SKIP_MAX_ERRORS)
    /\ asked'.ret
    /\ UpdateFileStatus("error", 0, "too_many_errors")
    /\ request' = [request EXCEPT !.state = "returned", !.result = "skipped"]
    /\ UNCHANGED <<opc, stage_attempt, in_flight, chunks, caught, stage_calls, run_start>>

\* lines 101 to 119: should_skip_task is false and the file record is there
BeginRun ==
    /\ request.state = "entry"
    /\ ShouldSkipTaskCall(FileId, SKIP_MAX_ERRORS)
    /\ ~asked'.ret
    /\ request' = [request EXCEPT !.state = "running"]
    /\ opc' = 1
    /\ UNCHANGED <<file_record, processing_logs, stage_attempt, in_flight, chunks,
                   caught, stage_calls, progress_seq, run_start>>

\* an update_file_status call of the try body
StatusWrite ==
    /\ Running("status")
    /\ UpdateFileStatus(Program[opc].status, Program[opc].progress, Program[opc].message)
    /\ opc' = opc + 1
    /\ UNCHANGED <<stage_attempt, in_flight, chunks, caught, request, stage_calls,
                   run_start, tracker_vars>>

\* the last call of calls has ended with the outcome
Ended(calls, outcome) == [calls EXCEPT ![Len(calls)].outcome = outcome]

\* the retry wrapper of the stage calls the stage function
StageInvoke ==
    /\ Running("stage")
    /\ in_flight = {}
    /\ in_flight' = {Program[opc].stage}
    /\ stage_calls' = Append(stage_calls, [stage |-> Program[opc].stage,
                                            outcome |-> "running"])
    /\ UNCHANGED <<file_record, processing_logs, opc, stage_attempt, chunks, caught,
                   request, progress_seq, run_start, tracker_vars>>

\* the stage function returns; the chunking stage returns n chunks
StageReturns(n) ==
    /\ Running("stage")
    /\ in_flight = {Program[opc].stage}
    /\ in_flight' = {}
    /\ chunks' = IF Program[opc].stage = "chunking" THEN n ELSE chunks
    /\ Program[opc].stage # "chunking" => n = 0
    /\ opc' = opc + 1
    /\ stage_attempt' = 0
    /\ stage_calls' = Ended(stage_calls, "returned")
    /\ UNCHANGED <<file_record, processing_logs, caught, request,
                   progress_seq, run_start, tracker_vars>>

\* where process_document goes when the exception e leaves its try body
ExceptClause(e) ==
    IF e.type = "NonRetryableError" THEN "except_nonretryable" ELSE "except_exception"

\* the stage function raises e, and the wrapper retries whatever
\* log_and_handle_error made of it
StageRaisesAlwaysRetried(e) ==
    /\ Running("stage")
    /\ in_flight = {Program[opc].stage}
    /\ in_flight' = {}
    /\ RecordError(FileId, e)
    /\ LET stage == Program[opc].stage
           handled_error == HandledError(e, stage)
       IN IF stage_attempt < StageMaxRetries(stage)
          THEN /\ stage_attempt' = stage_attempt + 1
               /\ UNCHANGED <<caught, request>>
          ELSE /\ caught' = handled_error
               /\ request' = [request EXCEPT !.state = ExceptClause(handled_error)]
               /\ stage_attempt' = stage_attempt
    /\ stage_calls' = Ended(stage_calls, HandledError(e, Program[opc].stage).type)
    /\ UNCHANGED <<file_record, processing_logs, opc, chunks,
                   progress_seq, run_start>>

\* the stage function raises e, and the ..._with_retry function records it
\* only when no attempt follows
StageRaisesRecordsFinal(e) ==
    /\ Running("stage")
    /\ in_flight = {Program[opc].stage}
    /\ in_flight' = {}
    /\ LET stage == Program[opc].stage
           handled_error == HandledError(e, stage)
       IN IF handled_error.type \in RetryableExceptions
             /\ stage_attempt < StageMaxRetries(stage)
          THEN /\ stage_attempt' = stage_attempt + 1
               /\ UNCHANGED <<caught, request, tracker_vars>>
          ELSE /\ caught' = handled_error
               /\ request' = [request EXCEPT !.state = ExceptClause(handled_error)]
               /\ stage_attempt' = stage_attempt
               /\ RecordError(FileId, e)
    /\ stage_calls' = Ended(stage_calls, HandledError(e, Program[opc].stage).type)
    /\ UNCHANGED <<file_record, processing_logs, opc, chunks,
                   progress_seq, run_start>>

\* the stage function raises e, and the ..._with_retry function raises what
\* the classifier makes of it without recording it
StageRaisesUnrecorded(e) ==
    /\ Running("stage")
    /\ in_flight = {Program[opc].stage}
    /\ in_flight' = {}
    /\ LET stage == Program[opc].stage
           handled_error == HandledError(e, stage)
       IN IF handled_error.type \in RetryableExceptions
             /\ stage_attempt < StageMaxRetries(stage)
          THEN /\ stage_attempt' = stage_attempt + 1
               /\ UNCHANGED <<caught, request>>
          ELSE /\ caught' = handled_error
               /\ request' = [request EXCEPT !.state = ExceptClause(handled_error)]
               /\ stage_attempt' = stage_attempt
    /\ stage_calls' = Ended(stage_calls, HandledError(e, Program[opc].stage).type)
    /\ UNCHANGED <<file_record, processing_logs, opc, chunks,
                   progress_seq, run_start, tracker_vars>>

\* the stage function raises e: the ..._with_retry function passes it to
\* log_and_handle_error and raises the result, which retry_with_backoff
\* retries when it is a RetryableError and attempts are left
StageRaises(e) ==
    /\ Running("stage")
    /\ in_flight = {Program[opc].stage}
    /\ in_flight' = {}
    /\ RecordError(FileId, e)
    /\ LET stage == Program[opc].stage
           handled_error == HandledError(e, stage)
       IN IF handled_error.type \in RetryableExceptions
             /\ stage_attempt < StageMaxRetries(stage)
          THEN /\ stage_attempt' = stage_attempt + 1
               /\ UNCHANGED <<caught, request>>
          ELSE /\ caught' = handled_error
               /\ request' = [request EXCEPT !.state = ExceptClause(handled_error)]
               /\ stage_attempt' = stage_attempt
    /\ stage_calls' = Ended(stage_calls, HandledError(e, Program[opc].stage).type)
    /\ UNCHANGED <<file_record, processing_logs, opc, chunks,
                   progress_seq, run_start>>

\* db_manager.log_processing_stage(file_id, stage, "completed", ...)
LogCompleted ==
    /\ Running("log")
    /\ processing_logs' = Append(processing_logs,
                                 [stage |-> Program[opc].stage, status |-> "completed"])
    /\ opc' = opc + 1
    /\ UNCHANGED <<file_record, stage_attempt, in_flight, chunks, caught, request,
                   stage_calls, progress_seq, run_start, tracker_vars>>

\* db_manager.update_file_results(file_id, chunks_count=len(chunks))
UpdateFileResults ==
    /\ Running("results")
    /\ file_record' = UpdatedResults(file_record, chunks)
    /\ opc' = opc + 1
    /\ UNCHANGED <<processing_logs, stage_attempt, in_flight, chunks, caught, request,
                   stage_calls, progress_seq, run_start, tracker_vars>>

\* return {..., "status": "completed"}
ReturnCompleted ==
    /\ Running("return")
    /\ request' = [request EXCEPT !.state = "returned", !.result = "completed"]
    /\ UNCHANGED <<file_record, processing_logs, opc, stage_attempt, in_flight, chunks,
                   caught, stage_calls, progress_seq, run_start, tracker_vars>>

\* except NonRetryableError: the document is set to error and the error is
\* raised on
ExceptNonRetryable ==
    /\ request.state = "except_nonretryable"
    /\ UpdateFileStatus("error", 0, "failed_nonretryable")
    /\ request' = [request EXCEPT !.state = "raised"]
    /\ UNCHANGED <<opc, stage_attempt, in_flight, chunks, caught, stage_calls,
                   run_start, tracker_vars>>

\* except Exception that leaves the progress the run had reached
ExceptExceptionKeepsProgress ==
    /\ request.state = "except_exception"
    /\ RecordError(FileId, caught)
    /\ UpdateFileStatus("error", file_record.progress, "failed")
    /\ request' = [request EXCEPT !.state =
          IF HandledError(caught, "document_processing").type = "RetryableError"
             /\ request.retries < CELERY_MAX_RETRIES
          THEN "retry" ELSE "raised"]
    /\ UNCHANGED <<opc, stage_attempt, in_flight, chunks, caught, stage_calls, run_start>>

\* except Exception: log_and_handle_error, the document is set to error, and
\* self.retry(countdown=60, max_retries=2) when the handled error is a
\* RetryableError; self.retry raises Retry while retries are left
ExceptException ==
    /\ request.state = "except_exception"
    /\ RecordError(FileId, caught)
    /\ UpdateFileStatus("error", 0, "failed")
    /\ request' = [request EXCEPT !.state =
          IF HandledError(caught, "document_processing").type = "RetryableError"
             /\ request.retries < CELERY_MAX_RETRIES
          THEN "retry" ELSE "raised"]
    /\ UNCHANGED <<opc, stage_attempt, in_flight, chunks, caught, stage_calls, run_start>>

\* ------------------------------------------------------ history recording
\* What a run leaves behind for the properties below.  None of it is read by
\* the program's actions.

SawEnqueue(c, name) == last' = Call("enqueue", next_id, name, next_id)

SawDequeueSelect(c) ==
    IF SelectCandidates(task_queue, clock) = {}
    THEN last' = Call("dequeue", NoTask, NULLTEXT, NoTask)
    ELSE UNCHANGED last

SawDequeueUpdate(c) ==
    /\ last' = Call("dequeue", local[c].id, NULLTEXT, local[c].id)
    /\ claimed' = [claimed EXCEPT ![local[c].id] = TRUE]

SawComplete(c, id, v) == last' = Call("complete", id, v, NoTask)

SawFailRead(c, id, msg, retry) ==
    IF RowFound(task_queue, id) /\ id \in DOMAIN task_queue
    THEN UNCHANGED last
    ELSE last' = [Call("fail", id, msg, NoTask) EXCEPT !.err = FailRaises(task_queue, id)]

\* A fail_task that put the task back to retry ends the claim on it.
SawFailWrite(c) ==
    /\ last' = Call("fail", local[c].id, local[c].msg, NoTask)
    /\ claimed' =
         IF ShouldRetry(local[c].retry, local[c].retry_count, local[c].max_retries)
            /\ local[c].id \in DOMAIN task_queue
         THEN [claimed EXCEPT ![local[c].id] = FALSE]
         ELSE claimed

\* deleted_count = cursor.rowcount; return deleted_count
SawCleanup(c, days) ==
    last' = Call("cleanup", NoTask, NULLTEXT,
                 Cardinality(CleanupGone(task_queue, Cutoff(clock, days))))

\* fail_calls[t]: how many fail_task(t, msg) calls have returned, all with
\* retry left at its default and one after the other; -1 once a call passed
\* retry=False or two calls on t overlapped.
CountFailRead(c, id) ==
    fail_calls' =
        IF id \in DOMAIN task_queue
           /\ \E d \in Callers : pc[d] = "fail_task" /\ local[d].id = id
        THEN [fail_calls EXCEPT ![id] = -1]
        ELSE fail_calls

CountFailWrite(c) ==
    fail_calls' = [fail_calls EXCEPT ![local[c].id] =
                     IF @ = -1 \/ ~local[c].retry THEN -1
                     ELSE IF @ > DEFAULT_MAX_RETRIES THEN @ ELSE @ + 1]

\* failed_at[t]: when fail_task last wrote status = 'failed' to t.
StampFailWrite(c) ==
    failed_at' =
        IF ShouldRetry(local[c].retry, local[c].retry_count, local[c].max_retries)
           \/ local[c].id \notin DOMAIN task_queue
        THEN failed_at
        ELSE [failed_at EXCEPT ![local[c].id] = clock]

\* ---------------------------------------------------------- specifications

\* Spec: any interleaving of the queue's calls by callers who share one
\* SQLiteTaskQueue object or hold one each.
\* the message each caller passes to fail_task
MessageOf(c) == IF c = 1 THEN "x" ELSE "y"
SpecValues == {"1"}
SpecNames == {"process_pdf"}
SpecDays == {0}

Next ==
    \/ \E c \in Callers, name \in SpecNames, kwargs \in KwargsValues :
          next_id <= MaxTasks /\ Enqueue(c, name, kwargs) /\ SawEnqueue(c, name)
             /\ UNCHANGED <<claimed, fail_calls, failed_at, burst_m, burst_got, ext_vars>>
    \/ \E c \in Callers :
          DequeueSelect(c) /\ SawDequeueSelect(c)
             /\ UNCHANGED <<claimed, fail_calls, failed_at, burst_m, burst_got, ext_vars>>
    \/ \E c \in Callers :
          DequeueUpdate(c) /\ SawDequeueUpdate(c)
             /\ UNCHANGED <<fail_calls, failed_at, burst_m, burst_got, ext_vars>>
    \/ \E c \in Callers, id \in Ids, v \in SpecValues :
          CompleteTask(c, id, v) /\ SawComplete(c, id, v)
             /\ UNCHANGED <<claimed, fail_calls, failed_at, burst_m, burst_got, ext_vars>>
    \/ \E c \in Callers, id \in Ids, retry \in BOOLEAN :
          FailRead(c, id, MessageOf(c), retry) /\ SawFailRead(c, id, MessageOf(c), retry)
             /\ CountFailRead(c, id)
             /\ UNCHANGED <<claimed, failed_at, burst_m, burst_got, ext_vars>>
    \/ \E c \in Callers :
          FailWrite(c) /\ SawFailWrite(c) /\ CountFailWrite(c)
             /\ UNCHANGED <<failed_at, burst_m, burst_got, ext_vars>>
    \/ \E c \in Callers, days \in SpecDays :
          CleanupOldTasks(c, days) /\ SawCleanup(c, days)
             /\ UNCHANGED <<claimed, fail_calls, failed_at, burst_m, burst_got, ext_vars>>
    \/ Tick /\ UNCHANGED <<hist_vars, ext_vars>>

Spec == Init /\ [][Next]_vars

\* BurstSpec: every caller calls dequeue once, all at the same time, on a
\* store holding tasks at any stage of their life; nothing else happens.
BurstTimes == 0..MaxClock

\* The rows a task has after enqueue, dequeue, fail_task and complete_task.
LifeRows(at) ==
    LET new == NewRow("process_pdf", NoKwargs, at)
        run == ClaimRow(new, at)
    IN {new, run, RetryRow(run, at, "x", 0), FailedRow(run, "x"),
        CompleteRow(run, at, "1")}

BurstInit ==
    /\ clock \in BurstTimes
    /\ \E at \in BurstTimes :
          /\ at <= clock
          /\ task_queue \in [1..MaxSeqTasks -> LifeRows(0) \cup LifeRows(at)]
    /\ next_id = MaxSeqTasks + 1
    /\ queue_of \in {SharedObject, OwnObjects}
    /\ lock = [q \in QueueObjs |-> FALSE]
    /\ pc = [c \in Callers |-> "idle"]
    /\ local = [c \in Callers |-> NoLocal]
    /\ last = NoCall
    /\ claimed = [t \in Ids |-> FALSE]
    /\ fail_calls = [t \in Ids |-> 0]
    /\ failed_at = [t \in Ids |-> NULL]
    /\ burst_m = Cardinality(ClaimableIds(task_queue, clock))
    /\ burst_got = [c \in Callers |-> NULL]
    /\ InitExt

BurstNext ==
    \/ \E c \in Callers :
          /\ burst_got[c] = NULL
          /\ DequeueSelect(c) /\ SawDequeueSelect(c)
          /\ burst_got' = IF SelectCandidates(task_queue, clock) = {}
                          THEN [burst_got EXCEPT ![c] = NoTask]
                          ELSE burst_got
          /\ UNCHANGED <<claimed, fail_calls, failed_at, burst_m, ext_vars>>
    \/ \E c \in Callers :
          /\ DequeueUpdate(c) /\ SawDequeueUpdate(c)
          /\ burst_got' = [burst_got EXCEPT ![c] = local[c].id]
          /\ UNCHANGED <<fail_calls, failed_at, burst_m, ext_vars>>

BurstSpec == BurstInit /\ [][BurstNext]_vars

\* CompleteSpec: one caller enqueues, claims and completes tasks with every
\* kind of result.
SeqCaller == CHOOSE c \in Callers : \A d \in Callers : c <= d

SeqInit == Init /\ queue_of = SharedObject

CompleteNext ==
    \/ \E name \in SpecNames :
          next_id <= MaxSeqTasks /\ Enqueue(SeqCaller, name, NoKwargs) /\ SawEnqueue(SeqCaller, name)
             /\ UNCHANGED <<claimed, fail_calls, failed_at, burst_m, burst_got, ext_vars>>
    \/ DequeueSelect(SeqCaller) /\ SawDequeueSelect(SeqCaller)
          /\ UNCHANGED <<claimed, fail_calls, failed_at, burst_m, burst_got, ext_vars>>
    \/ DequeueUpdate(SeqCaller) /\ SawDequeueUpdate(SeqCaller)
          /\ UNCHANGED <<fail_calls, failed_at, burst_m, burst_got, ext_vars>>
    \/ \E id \in Ids, v \in PyValues :
          CompleteTask(SeqCaller, id, v) /\ SawComplete(SeqCaller, id, v)
             /\ UNCHANGED <<claimed, fail_calls, failed_at, burst_m, burst_got, ext_vars>>

CompleteSpec == SeqInit /\ [][CompleteNext]_vars

\* CleanupSpec: one caller runs tasks to completion or failure and cleans
\* up, while days pass.
CleanupDays == {0, 1}

CleanupNext ==
    \/ \E name \in SpecNames :
          next_id <= MaxSeqTasks /\ Enqueue(SeqCaller, name, NoKwargs) /\ SawEnqueue(SeqCaller, name)
             /\ UNCHANGED <<claimed, fail_calls, failed_at, burst_m, burst_got, ext_vars>>
    \/ DequeueSelect(SeqCaller) /\ SawDequeueSelect(SeqCaller)
          /\ UNCHANGED <<claimed, fail_calls, failed_at, burst_m, burst_got, ext_vars>>
    \/ DequeueUpdate(SeqCaller) /\ SawDequeueUpdate(SeqCaller)
          /\ UNCHANGED <<fail_calls, failed_at, burst_m, burst_got, ext_vars>>
    \/ \E id \in Ids, v \in SpecValues :
          CompleteTask(SeqCaller, id, v) /\ SawComplete(SeqCaller, id, v)
             /\ UNCHANGED <<claimed, fail_calls, failed_at, burst_m, burst_got, ext_vars>>
    \/ \E id \in Ids, retry \in BOOLEAN :
          FailRead(SeqCaller, id, MessageOf(SeqCaller), retry)
             /\ SawFailRead(SeqCaller, id, MessageOf(SeqCaller), retry)
             /\ UNCHANGED <<claimed, fail_calls, failed_at, burst_m, burst_got, ext_vars>>
    \/ FailWrite(SeqCaller) /\ SawFailWrite(SeqCaller) /\ StampFailWrite(SeqCaller)
          /\ UNCHANGED <<fail_calls, burst_m, burst_got, ext_vars>>
    \/ \E days \in CleanupDays :
          CleanupOldTasks(SeqCaller, days) /\ SawCleanup(SeqCaller, days)
             /\ UNCHANGED <<claimed, fail_calls, failed_at, burst_m, burst_got, ext_vars>>
    \/ TickDay /\ UNCHANGED <<hist_vars, ext_vars>>

CleanupSpec == SeqInit /\ [][CleanupNext]_vars

\* ------------------------------------------------------------- properties

\* The step in which caller c's dequeue returns the task it selected.
DequeueReturns(c) == pc[c] = "dequeue" /\ pc'[c] = "idle"

\* The step in which caller c's fail_task issues its UPDATE and returns.
FailReturns(c) == pc[c] = "fail_task" /\ pc'[c] = "idle"

\* C1: claiming is atomic: dequeue never returns a task id that an earlier
\* dequeue returned unless a fail_task has put the task back to retry since,
\* whether the callers share one SQLiteTaskQueue object or hold one each.
C1_AtomicClaim ==
    [][\A c \in Callers : DequeueReturns(c) => ~claimed[local[c].id]]_vars

\* C1, for callers that share one SQLiteTaskQueue object only.
C1_AtomicClaimSharedObject ==
    [][\A c \in Callers :
          DequeueReturns(c) /\ queue_of = SharedObject => ~claimed[local[c].id]]_vars

\* C2: when every one of the k callers has made its one concurrent dequeue
\* call on a store that held m < k claimable tasks, exactly m callers were
\* given a task, no two of them the same one, and the other k - m were given
\* none.
BurstOver == \A c \in Callers : burst_got[c] # NULL

BurstWinners == {c \in Callers : burst_got[c] # NULL /\ burst_got[c] # NoTask}

C2_BurstGivesEachTaskOnce ==
    BurstOver /\ burst_m < NumCallers =>
        /\ Cardinality(BurstWinners) = burst_m
        /\ \A c, d \in BurstWinners : c # d => burst_got[c] # burst_got[d]
        /\ Cardinality({c \in Callers : burst_got[c] = NoTask}) = NumCallers - burst_m

\* C2, for callers that share one SQLiteTaskQueue object only.
C2_BurstSharedObject == queue_of = SharedObject => C2_BurstGivesEachTaskOnce

\* C3: dequeue returns only a task that is claimable at the moment it claims
\* it (the row is there, pending or retry, its next_retry_at null or not
\* later than now), and returns none only when no task is claimable.
DequeueReturnsNone ==
    /\ last' # last
    /\ last' = Call("dequeue", NoTask, NULLTEXT, NoTask)

C3_ReturnsOnlyClaimable ==
    [][/\ \A c \in Callers :
             DequeueReturns(c) =>
                /\ local[c].id \in DOMAIN task_queue
                /\ Claimable(task_queue[local[c].id], clock)
       /\ DequeueReturnsNone => ClaimableIds(task_queue, clock) = {}]_vars

\* C3, for callers that share one SQLiteTaskQueue object only.
C3_ReturnsOnlyClaimableSharedObject ==
    [][queue_of = SharedObject =>
          /\ \A c \in Callers :
                DequeueReturns(c) =>
                   /\ local[c].id \in DOMAIN task_queue
                   /\ Claimable(task_queue[local[c].id], clock)
          /\ DequeueReturnsNone => ClaimableIds(task_queue, clock) = {}]_vars

\* C4: in every reachable state every task has 0 <= retry_count <= max_retries.
C4_RetryCountBounded ==
    \A t \in DOMAIN task_queue :
        /\ 0 <= task_queue[t].retry_count
        /\ task_queue[t].retry_count <= task_queue[t].max_retries

\* A task that was failed again after its retry_count had reached max_retries.
C4_Witness ==
    \E t \in DOMAIN task_queue :
        /\ task_queue[t].retry_count = task_queue[t].max_retries
        /\ task_queue[t].status = "failed"
        /\ last.op = "fail" /\ last.id = t

\* C5 as stated: no task is ever in status failed while its retry_count is
\* below max_retries.
C5_FailedOnlyAtMax ==
    \A t \in DOMAIN task_queue :
        task_queue[t].status = "failed" =>
            task_queue[t].retry_count = task_queue[t].max_retries

\* C5 as amended: a task becomes failed only by a fail_task call on it, and
\* a fail_task call on an existing task leaves it failed exactly when it was
\* called with retry=False or the retry_count it read equals max_retries.
C5_FailedExactlyWhen ==
    [][/\ \A c \in Callers :
             FailReturns(c) /\ local[c].id \in DOMAIN task_queue =>
                LET t == local[c].id IN
                task_queue'[t].status = "failed" <=>
                   (~local[c].retry \/ local[c].retry_count = local[c].max_retries)
       /\ \A t \in DOMAIN task_queue \cap DOMAIN task_queue' :
             task_queue[t].status # "failed" /\ task_queue'[t].status = "failed" =>
                \E c \in Callers : FailReturns(c) /\ local[c].id = t]_vars

\* A task failed by a call that found retry_count == max_retries.
C5_Witness ==
    \E t \in DOMAIN task_queue :
        /\ task_queue[t].status = "failed"
        /\ task_queue[t].retry_count = task_queue[t].max_retries
        /\ task_queue[t].max_retries > 0
        /\ last.op = "fail" /\ last.id = t
        /\ fail_calls[t] = DEFAULT_MAX_RETRIES + 1

\* The max_retries keyword given to enqueue, or the row's max_retries when
\* enqueue was given none.
RequestedMaxRetries(r) ==
    IF \E kv \in r.kwargs : kv[1] = "max_retries"
    THEN (CHOOSE kv \in r.kwargs : kv[1] = "max_retries")[2]
    ELSE r.max_retries

StoredMaxRetries(r) == r.max_retries

\* The k-th fail_task(T, msg) call since T was enqueued returns, no other
\* fail_task call on T having overlapped one of the k: for k <= N(T) it
\* leaves retry with a next_retry_at later than call k-1 set, and call
\* N(T)+1 leaves failed.
FailSequenceStep(N(_)) ==
    \A c \in Callers :
        FailReturns(c) /\ local[c].id \in DOMAIN task_queue
           /\ local[c].retry /\ fail_calls[local[c].id] >= 0 =>
            LET t == local[c].id
                k == fail_calls[t] + 1
                n == N(task_queue[t])
            IN /\ k <= n =>
                    /\ task_queue'[t].status = "retry"
                    /\ k >= 2 => task_queue'[t].next_retry_at > task_queue[t].next_retry_at
               /\ k = n + 1 => task_queue'[t].status = "failed"

\* C6 as stated: for a task enqueued with max_retries = N, the first N
\* fail calls each leave retry with a strictly later next_retry_at and call
\* N+1 leaves failed, N being the max_retries given to enqueue.
C6_RequestedRetries == [][FailSequenceStep(RequestedMaxRetries)]_vars

\* C6 as amended: every task has max_retries = 3 whatever enqueue was given;
\* the first 3 fail calls each leave retry with a strictly later
\* next_retry_at and the 4th leaves failed.
C6_DefaultRetries ==
    [][/\ FailSequenceStep(StoredMaxRetries)
       /\ \A t \in DOMAIN task_queue' :
             task_queue'[t].max_retries = DEFAULT_MAX_RETRIES]_vars

\* A task enqueued with max_retries=2 that four fail calls took to failed.
C6_Witness ==
    \E t \in DOMAIN task_queue :
        /\ RequestedMaxRetries(task_queue[t]) < task_queue[t].max_retries
        /\ fail_calls[t] = DEFAULT_MAX_RETRIES + 1
        /\ task_queue[t].status = "failed"

\* C7: a fail_task call on an existing task that has retry set and read
\* retry_count < max_retries leaves status retry, retry_count one above the
\* value read and next_retry_at = now + 2^(value read) minutes; any other
\* leaves status failed and retry_count as it was; both leave error_message
\* equal to the message given.
C7_FailPostcondition ==
    [][\A c \in Callers :
          FailReturns(c) /\ local[c].id \in DOMAIN task_queue =>
             LET t == local[c].id IN
             /\ IF local[c].retry /\ local[c].retry_count < local[c].max_retries
                THEN /\ task_queue'[t].status = "retry"
                     /\ task_queue'[t].retry_count = local[c].retry_count + 1
                     /\ task_queue'[t].next_retry_at = clock + 2 ^ local[c].retry_count
                ELSE /\ task_queue'[t].status = "failed"
                     /\ task_queue'[t].retry_count = task_queue[t].retry_count
             /\ task_queue'[t].error_message = local[c].msg]_vars

\* The second fail_task call on a task has returned: retry_count 2 and a
\* delay of 2^1 minutes.
C7_Witness ==
    \E t \in DOMAIN task_queue :
        /\ last.op = "fail" /\ last.id = t
        /\ task_queue[t].status = "retry"
        /\ task_queue[t].retry_count = 2
        /\ task_queue[t].next_retry_at = clock + 2
        /\ task_queue[t].error_message = last.arg

\* C9: a complete_task or fail_task call whose id is not in the store
\* leaves the store as it was and raises no error.
C9_MissingIdNoOp ==
    [][last' # last /\ last'.op \in {"complete", "fail"}
          /\ last'.id \notin DOMAIN task_queue =>
             /\ task_queue' = task_queue
             /\ next_id' = next_id
             /\ ~last'.err]_vars

\* fail_task was called on a task that cleanup had removed.
C9_Witness ==
    /\ last.op = "fail"
    /\ last.id \notin DOMAIN task_queue
    /\ last.id < next_id
    /\ \A c \in Callers : pc[c] = "idle"

\* C8: after complete_task(id, result) on an existing task the task is
\* completed, has a completed_at, and its stored result reads back as the
\* result given, for every result value.
C8_CompleteStoresResult ==
    last.op = "complete" /\ last.id \in DOMAIN task_queue =>
        /\ task_queue[last.id].status = "completed"
        /\ task_queue[last.id].completed_at # NULL
        /\ JsonLoads(task_queue[last.id].result) = last.arg

\* The same for the results that Python counts as true, and for None.
C8_CompleteStoresTruthyResult ==
    last.op = "complete" /\ last.id \in DOMAIN task_queue
       /\ (Truthy(last.arg) \/ last.arg = "None") =>
        /\ task_queue[last.id].status = "completed"
        /\ task_queue[last.id].completed_at # NULL
        /\ JsonLoads(task_queue[last.id].result) = last.arg

\* C10: cleanup_old_tasks(days) deletes exactly the completed tasks whose
\* completed_at and the failed tasks whose time of failure precede the
\* cutoff, and returns how many it deleted.
C10_CleanupDeletesOldTerminal ==
    [][\A days \in CleanupDays :
          CleanupOldTasks(SeqCaller, days) /\ SawCleanup(SeqCaller, days) =>
             LET cutoff == Cutoff(clock, days)
                 gone == DOMAIN task_queue \ DOMAIN task_queue'
             IN /\ \A t \in DOMAIN task_queue :
                      t \in gone <=>
                         \/ /\ task_queue[t].status = "completed"
                            /\ task_queue[t].completed_at # NULL
                            /\ task_queue[t].completed_at < cutoff
                         \/ /\ task_queue[t].status = "failed"
                            /\ failed_at[t] # NULL
                            /\ failed_at[t] < cutoff
                /\ last'.ret = Cardinality(gone)]_vars

\* What cleanup_old_tasks does delete: the tasks, completed or failed, whose
\* completed_at is set and precedes the cutoff; it returns their number.
C10_CleanupDeletesByCompletedAt ==
    [][\A days \in CleanupDays :
          CleanupOldTasks(SeqCaller, days) /\ SawCleanup(SeqCaller, days) =>
             LET cutoff == Cutoff(clock, days)
                 gone == DOMAIN task_queue \ DOMAIN task_queue'
             IN /\ \A t \in DOMAIN task_queue :
                      t \in gone <=>
                         /\ task_queue[t].status \in {"completed", "failed"}
                         /\ task_queue[t].completed_at # NULL
                         /\ task_queue[t].completed_at < cutoff
                /\ last'.ret = Cardinality(gone)]_vars

DequeueSelects(c) == pc[c] = "idle" /\ pc'[c] = "dequeue"

\* dequeue's SELECT takes a claimable task with the least created_at of
\* the claimable tasks.
SelectsOldestClaimable(c) ==
    DequeueSelects(c) =>
        LET t == local'[c].id IN
        /\ t \in ClaimableIds(task_queue, clock)
        /\ \A u \in ClaimableIds(task_queue, clock) :
              task_queue[t].created_at <= task_queue[u].created_at

\* C11: dequeue returns a task that had the earliest created_at of the
\* tasks claimable at its SELECT, and that task is in the store with status
\* processing and started_at = now when dequeue returns.
C11_DequeuesOldestClaimable ==
    [][\A c \in Callers :
          /\ SelectsOldestClaimable(c)
          /\ DequeueReturns(c) =>
                /\ local[c].id \in DOMAIN task_queue'
                /\ task_queue'[local[c].id].status = "processing"
                /\ task_queue'[local[c].id].started_at = clock]_vars

\* The selection of C11 alone: in every interleaving dequeue's SELECT takes
\* a task with the earliest created_at of those claimable at that moment.
C11_SelectsOldest == [][\A c \in Callers : SelectsOldestClaimable(c)]_vars

\* C12: no step removes a task in status processing, and such a task stays
\* processing until a complete_task or fail_task call on it returns, whatever
\* else is called (cleanup_old_tasks included) and however long the worker
\* that claimed it stays silent.
C12_ProcessingNeverRemoved ==
    [][\A t \in DOMAIN task_queue :
          task_queue[t].status = "processing" =>
             /\ t \in DOMAIN task_queue'
             /\ task_queue'[t].status # "processing" =>
                   last'.op \in {"complete", "fail"} /\ last'.id = t]_vars

\* A claimed task is still there, processing, after a cleanup_old_tasks call
\* whose cutoff lies after the claim.
C12_Witness ==
    \E t \in DOMAIN task_queue :
        /\ task_queue[t].status = "processing"
        /\ claimed[t]
        /\ task_queue[t].started_at < clock
        /\ last.op = "cleanup"

\* ---------------------------------------------------------- WorkerSpec
\* Two workers, each in its own start() loop, worker 1 with a handler for
\* process_pdf and worker 2 with none, while tasks are enqueued and minutes
\* pass.
WorkerNext ==
    \/ \E c \in Callers, name \in TaskNames :
          next_id <= MaxTasks /\ Enqueue(c, name, NoKwargs) /\ SawEnqueue(c, name)
             /\ UNCHANGED <<claimed, fail_calls, failed_at, burst_m, burst_got,
                            worker_vars, wrapper_vars, tracker_vars, doc_vars>>
    \/ \E c \in Callers :
          WorkerStart(c) /\ UNCHANGED <<hist_vars, wrapper_vars, tracker_vars, doc_vars>>
    \/ \E c \in Callers :
          WorkerStop(c) /\ UNCHANGED <<hist_vars, wrapper_vars, tracker_vars, doc_vars>>
    \/ \E c \in Callers :
          WorkerExit(c) /\ UNCHANGED <<hist_vars, wrapper_vars, tracker_vars, doc_vars>>
    \/ \E c \in Callers :
          WorkerDequeueSelect(c) /\ SawDequeueSelect(c)
             /\ UNCHANGED <<claimed, fail_calls, failed_at, burst_m, burst_got,
                            wrapper_vars, tracker_vars, doc_vars>>
    \/ \E c \in Callers :
          WorkerDequeueUpdate(c) /\ SawDequeueUpdate(c)
             /\ UNCHANGED <<fail_calls, failed_at, burst_m, burst_got,
                            wrapper_vars, tracker_vars, doc_vars>>
    \/ \E c \in Callers :
          WorkerWake(c) /\ UNCHANGED <<hist_vars, wrapper_vars, tracker_vars, doc_vars>>
    \/ \E c \in Callers :
          WorkerFailUnknown(c)
             /\ SawFailRead(c, task[c].id, UnknownTaskMessage, FALSE)
             /\ UNCHANGED <<claimed, fail_calls, failed_at, burst_m, burst_got,
                            wrapper_vars, tracker_vars, doc_vars>>
    \/ \E c \in Callers :
          WorkerInvoke(c) /\ UNCHANGED <<hist_vars, wrapper_vars, tracker_vars, doc_vars>>
    \/ \E c \in Callers, v \in SpecValues :
          WorkerComplete(c, v) /\ SawComplete(c, task[c].id, v)
             /\ UNCHANGED <<claimed, fail_calls, failed_at, burst_m, burst_got,
                            wrapper_vars, tracker_vars, doc_vars>>
    \/ \E c \in Callers :
          WorkerHandlerRaises(c)
             /\ SawFailRead(c, task[c].id, TaskFailedMessage, TRUE)
             /\ UNCHANGED <<claimed, fail_calls, failed_at, burst_m, burst_got,
                            wrapper_vars, tracker_vars, doc_vars>>
    \/ \E c \in Callers :
          WorkerFailWrite(c) /\ SawFailWrite(c)
             /\ UNCHANGED <<fail_calls, failed_at, burst_m, burst_got,
                            wrapper_vars, tracker_vars, doc_vars>>
    \/ \E c \in Callers :
          WorkerInterrupted(c) /\ UNCHANGED <<hist_vars, wrapper_vars, tracker_vars, doc_vars>>
    \/ \E c \in Callers :
          WorkerHandlerExits(c) /\ UNCHANGED <<hist_vars, wrapper_vars, tracker_vars, doc_vars>>
    \/ Tick /\ UNCHANGED <<hist_vars, ext_vars>>

WorkerSpec == Init /\ [][WorkerNext]_vars

\* process_task's fail_task call returns to the loop
WorkerFailReturns(c) == wpc[c] = "fail_task" /\ wpc'[c] = "loop"

\* C13: a worker that has dequeued a task whose name is not in its registry
\* calls fail_task on it with retry=False and no handler; when that call
\* returns the task is failed with its retry_count as it was, whatever the
\* retry_count; a handler is only ever entered for a registered name.
C13_UnknownNameFailsAtOnce ==
    [][\A c \in Callers :
          /\ wpc[c] = "process" /\ wpc'[c] # "process"
                /\ task[c].task_name \notin TaskRegistry(c) =>
                   /\ wpc'[c] = "fail_task"
                   /\ pc'[c] = "fail_task"
                   /\ local'[c].id = task[c].id
                   /\ ~local'[c].retry
          /\ wpc'[c] = "handler" => task'[c].task_name \in TaskRegistry(c)
          /\ WorkerFailReturns(c) /\ task[c].task_name \notin TaskRegistry(c) =>
                /\ task[c].id \in DOMAIN task_queue'
                /\ task_queue'[task[c].id].status = "failed"
                /\ task_queue'[task[c].id].retry_count = task_queue[task[c].id].retry_count
                /\ task_queue'[task[c].id].error_message = UnknownTaskMessage]_vars

\* A task that a handler failure had sent to retry was failed, with one retry
\* used of three, by a worker that does not know its name.
C13_Witness ==
    \E t \in DOMAIN task_queue :
        /\ task_queue[t].status = "failed"
        /\ task_queue[t].error_message = UnknownTaskMessage
        /\ task_queue[t].retry_count > 0
        /\ task_queue[t].retry_count < task_queue[t].max_retries
        /\ last = Call("fail", t, UnknownTaskMessage, NoTask)

Budgets == (0 - 1)..MaxBudget
BaseDelays == 0..MaxBaseDelay
BackoffFactors == 1..MaxFactor
MaxDelays == 1..MaxMaxDelay

WrapperInit ==
    /\ InitProgram /\ queue_of = SharedObject
    /\ InitHistory /\ InitWorker /\ InitTracker /\ InitClassifier /\ InitPipeline /\ InitSide
    /\ invoked = <<>>
    /\ slept = <<>>
    /\ \E mr \in Budgets, bd \in BaseDelays, md \in MaxDelays, bf \in BackoffFactors :
          wrapper = WrapperFrame(mr, bd, md, bf)

WrapperNext ==
    \/ WrapperReturns /\ UNCHANGED <<queue_vars, worker_vars, tracker_vars, doc_vars>>
    \/ \E type \in RetryableExceptions :
          WrapperRetryable(type) /\ UNCHANGED <<queue_vars, worker_vars, tracker_vars, doc_vars>>
    \/ WrapperSleepEnds /\ UNCHANGED <<queue_vars, worker_vars, tracker_vars, doc_vars>>
    \/ WrapperNonRetryable /\ UNCHANGED <<queue_vars, worker_vars, tracker_vars, doc_vars>>
    \/ \E type \in OtherExceptions :
          WrapperUnknown(type) /\ UNCHANGED <<queue_vars, worker_vars, tracker_vars, doc_vars>>
    \/ \E type \in BaseExceptions :
          WrapperBaseException(type) /\ UNCHANGED <<queue_vars, worker_vars, tracker_vars, doc_vars>>
    \/ WrapperLoopEnds /\ UNCHANGED <<queue_vars, worker_vars, tracker_vars, doc_vars>>

WrapperSpec == WrapperInit /\ [][WrapperNext]_vars

\* The wrapper's code runs on: each invocation of the wrapped function and
\* each sleep ends.
WrapperFairSpec == WrapperSpec /\ WF_vars(WrapperNext)

WrapperDone == wrapper.state \in {"returned", "raised"}

\* C15: an invocation of the wrapped function that raised NonRetryableError
\* is the last invocation, and the wrapper has raised that same exception.
C15_NonRetryableNotRetried ==
    \A i \in 1..Len(invoked) :
        invoked[i].type = "NonRetryableError" =>
            /\ i = Len(invoked)
            /\ wrapper.state = "raised"
            /\ wrapper.result = invoked[i]

\* NonRetryableError was raised by a retry, after retryable failures.
C15_Witness ==
    /\ Len(invoked) >= 2
    /\ invoked[Len(invoked)].type = "NonRetryableError"
    /\ invoked[1].type \in RetryableExceptions
    /\ wrapper.state = "raised"

\* the state part of C16
InvocationsBounded ==
    /\ Len(invoked) <= wrapper.max_retries + 1
    /\ wrapper.state \in {"try", "sleep", "exhausted", "returned", "raised"}
    /\ wrapper.state = "raised" /\ invoked # <<>>
          /\ (\A i \in 1..Len(invoked) : invoked[i].type \in RetryableExceptions) =>
             /\ Len(invoked) = wrapper.max_retries + 1
             /\ wrapper.result = invoked[Len(invoked)]
    /\ \A i \in 1..Len(invoked) :
          invoked[i].type = "value" =>
             /\ i = Len(invoked)
             /\ wrapper.state = "returned"
             /\ wrapper.result = invoked[i]

\* C16: the wrapped function is invoked at most max_retries + 1 times; when
\* every invocation raised a retryable exception the wrapper raises the last
\* one; an invocation that returns is the last and the wrapper returns its
\* value; and every call of the wrapper ends, returning or raising.
C16_BoundedAttemptsAndEnds == []InvocationsBounded /\ <>WrapperDone

\* The wrapper returned the value of the last invocation its budget allowed,
\* after retrying max_retries times.
C16_Witness ==
    /\ wrapper.state = "returned"
    /\ Len(invoked) = wrapper.max_retries + 1
    /\ Len(invoked) >= 3
    /\ wrapper.result = invoked[Len(invoked)]

\* C17: an invocation that raised an Exception that is neither retryable nor
\* NonRetryableError is the last invocation, and the wrapper has raised a
\* NonRetryableError of type unknown_error whose original_error is it.
C17_UnknownIsWrapped ==
    \A i \in 1..Len(invoked) :
        invoked[i].type \in OtherExceptions =>
            /\ i = Len(invoked)
            /\ wrapper.state = "raised"
            /\ wrapper.result = [type |-> "NonRetryableError",
                                 error_type |-> "unknown_error",
                                 original_error |-> invoked[i]]

\* An unrecognised exception was raised by a retry and wrapped.
C17_Witness ==
    /\ Len(invoked) >= 2
    /\ invoked[Len(invoked)].type \in OtherExceptions
    /\ wrapper.state = "raised"
    /\ wrapper.result.type = "NonRetryableError"

MinOf(a, b) == IF a < b THEN a ELSE b

\* C18: the delay slept after attempt n (zero-based) is
\* min(base_delay * backoff_factor^n, max_delay); the delays are
\* non-decreasing in n and never exceed max_delay, for the delays slept and
\* for every n up to MaxAttempt.
C18_DelayFormula ==
    LET b == wrapper.base_delay
        f == wrapper.backoff_factor
        m == wrapper.max_delay
    IN wrapper.state # "idle" =>
         /\ \A i \in 1..Len(slept) :
               /\ slept[i] = MinOf(b * f ^ (i - 1), m)
               /\ slept[i] <= m
               /\ i > 1 => slept[i - 1] <= slept[i]
         /\ \A n \in 0..MaxAttempt :
               /\ Delay(b, f, n, m) = MinOf(b * f ^ n, m)
               /\ Delay(b, f, n, m) <= m
               /\ Delay(b, f, n, m) <= Delay(b, f, n + 1, m)

\* Three delays were slept, growing and then capped at max_delay.
C18_Witness ==
    /\ Len(slept) >= 3
    /\ slept[1] < slept[2]
    /\ slept[3] = wrapper.max_delay
    /\ wrapper.base_delay * wrapper.backoff_factor ^ 2 > wrapper.max_delay

\* ---------------------------------------------------------- TrackerSpec
\* Errors are recorded for two task ids in any order, and should_skip_task
\* is asked in between.
TrackerInit ==
    /\ InitProgram /\ queue_of = SharedObject
    /\ InitHistory /\ InitExt

TrackerNext ==
    \/ \E id \in TrackerIds :
          /\ Len(recorded) < MaxRecords
          /\ RecordError(id, ErrorOf(Len(recorded) + 1))
          /\ UNCHANGED <<queue_vars, worker_vars, wrapper_vars, doc_vars>>
    \/ \E id \in TrackerIds, max_errors \in Thresholds :
          /\ ShouldSkipTaskCall(id, max_errors)
          /\ UNCHANGED <<queue_vars, worker_vars, wrapper_vars, doc_vars>>

TrackerSpec == TrackerInit /\ [][TrackerNext]_vars

\* HistorySpec: one task id has errors recorded until the history has
\* overflowed twice.
HistoryId == "doc1"
HistoryCalls == HISTORY_LIMIT + HISTORY_KEEP + 2

HistoryNext ==
    /\ Len(recorded) < HistoryCalls
    /\ RecordError(HistoryId, ErrorOf(Len(recorded) + 1))
    /\ UNCHANGED <<queue_vars, worker_vars, wrapper_vars, doc_vars>>

HistorySpec == TrackerInit /\ [][HistoryNext]_vars

\* how many record_error(task_id, .) calls have been made
RecordCalls(task_id) ==
    Cardinality({i \in 1..Len(recorded) : recorded[i].task_id = task_id})

\* C19: should_skip_task(task_id, max_errors) is true exactly when the
\* number of record_error calls made for task_id is >= max_errors, whatever
\* was recorded for other ids; with the default 5 it is false after 0 to 4
\* calls and true after 5 or more; an answer given by a call was so computed.
C19_SkipIffCountReachesThreshold ==
    /\ \A id \in TrackerIds :
          /\ \A max_errors \in 0..(MaxRecords + 1) :
                ShouldSkipTask(error_counts, id, max_errors)
                   <=> RecordCalls(id) >= max_errors
          /\ RecordCalls(id) <= 4 => ~ShouldSkipTask(error_counts, id, DEFAULT_MAX_ERRORS)
          /\ RecordCalls(id) >= 5 => ShouldSkipTask(error_counts, id, DEFAULT_MAX_ERRORS)
    /\ DEFAULT_MAX_ERRORS = 5
    /\ asked.ret => RecordCalls(asked.task_id) >= asked.max_errors

\* should_skip_task with the default threshold answered true for a task with
\* exactly 5 recorded errors, while the other task has errors too but fewer.
C19_Witness ==
    /\ asked.ret /\ asked.max_errors = 5
    /\ RecordCalls(asked.task_id) = 5
    /\ \E id \in TrackerIds :
          /\ id # asked.task_id
          /\ RecordCalls(id) > 0
          /\ ~ShouldSkipTask(error_counts, id, 3)

\* the last k entries of h
LastOf(h, k) == SubSeq(h, Len(h) - k + 1, Len(h))

\* C20: after every record_error call the history has at most 1000 entries
\* and is the most recent of the records appended, in their order; up to
\* 1000 records it holds them all, and the 1001st leaves exactly the 500
\* most recent; each task's count is the number of its record_error calls,
\* trimmed or not.
C20_HistoryBounded ==
    LET n == Len(recorded)
        k == Len(error_history)
    IN /\ k <= 1000
       /\ k <= n
       /\ error_history = LastOf(recorded, k)
       /\ n <= 1000 => k = n
       /\ n = 1001 => k = 500 /\ error_history = SubSeq(recorded, 502, 1001)
       /\ n > 1000 => k >= 500
       /\ \A id \in TrackerIds : GetErrorCount(error_counts, id) = RecordCalls(id)

\* The 1001st record has just been appended.
C20_Witness ==
    /\ Len(recorded) = 1001
    /\ Len(error_history) = 500
    /\ error_history[500].error_message = 1001
    /\ error_history[1].error_message = 502
    /\ GetErrorCount(error_counts, HistoryId) = 1001

\* --------------------------------------------------------- PipelineSpec
\* One document: explicit processing requests, the runs of process_document
\* they start, and the runs Celery starts again after self.retry.
PipelineInit ==
    /\ InitProgram /\ queue_of = SharedObject
    /\ InitHistory /\ InitExt

PipelineNext ==
    \/ ProcessFile
          /\ UNCHANGED <<queue_vars, worker_vars, wrapper_vars, classifier_vars, side_vars>>
    \/ \E fresh \in BOOLEAN :
          CeleryDelivers(fresh)
          /\ UNCHANGED <<queue_vars, worker_vars, wrapper_vars, classifier_vars, side_vars>>
    \/ SkipRun
          /\ UNCHANGED <<queue_vars, worker_vars, wrapper_vars, classifier_vars, side_vars>>
    \/ BeginRun
          /\ UNCHANGED <<queue_vars, worker_vars, wrapper_vars, classifier_vars, side_vars>>
    \/ StatusWrite
          /\ UNCHANGED <<queue_vars, worker_vars, wrapper_vars, classifier_vars, side_vars>>
    \/ StageInvoke
          /\ UNCHANGED <<queue_vars, worker_vars, wrapper_vars, classifier_vars, side_vars>>
    \/ \E n \in 0..MaxChunks :
          StageReturns(n)
          /\ UNCHANGED <<queue_vars, worker_vars, wrapper_vars, classifier_vars, side_vars>>
    \/ \E e \in StageFailures :
          StageRaises(e)
          /\ UNCHANGED <<queue_vars, worker_vars, wrapper_vars, classifier_vars, side_vars>>
    \/ LogCompleted
          /\ UNCHANGED <<queue_vars, worker_vars, wrapper_vars, classifier_vars, side_vars>>
    \/ UpdateFileResults
          /\ UNCHANGED <<queue_vars, worker_vars, wrapper_vars, classifier_vars, side_vars>>
    \/ ReturnCompleted
          /\ UNCHANGED <<queue_vars, worker_vars, wrapper_vars, classifier_vars, side_vars>>
    \/ ExceptNonRetryable
          /\ UNCHANGED <<queue_vars, worker_vars, wrapper_vars, classifier_vars, side_vars>>
    \/ ExceptException
          /\ UNCHANGED <<queue_vars, worker_vars, wrapper_vars, classifier_vars, side_vars>>

PipelineSpec == PipelineInit /\ [][PipelineNext]_vars


\* a run of process_document has gone past its should_skip_task check
PastEntry ==
    request.state \in {"running", "except_nonretryable", "except_exception",
                       "returned", "raised", "retry"}

\* the processing_logs rows written since the run began
RunLogs ==
    {processing_logs[k] : k \in (run_start.logs + 1)..Len(processing_logs)}

\* the stage functions called in the run, in order
CalledStages == [i \in 1..Len(stage_calls) |-> stage_calls[i].stage]

\* C21: a run of process_document that finds should_skip_task true returns
\* at once as skipped: the document has status error, progress 0 and the
\* too-many-errors message, and no stage function has been invoked.
C21_SkipSetsErrorWithoutStages ==
    /\ PastEntry /\ asked.ret =>
          /\ request.state = "returned"
          /\ request.result = "skipped"
    /\ request.result = "skipped" =>
          /\ asked.ret
          /\ file_record.status = "error"
          /\ file_record.progress = 0
          /\ file_record.message = "too_many_errors"
          /\ stage_calls = <<>>
          /\ in_flight = {}
          /\ progress_seq = <<0>>

\* A run that was asked for explicitly has been skipped and has set the
\* pending document to error.
C21_Witness ==
    /\ request.result = "skipped"
    /\ request.explicit
    /\ run_start.record.status = "pending"
    /\ file_record.status = "error"
    /\ file_record.error_count = run_start.record.error_count + 1

\* C22: a run is skipped only when the tracker holds at least 5 errors for
\* the document; with 0 to 4 errors the pipeline is started.
C22_SkipsOnlyAtFive ==
    request.result = "skipped" => GetErrorCount(error_counts, FileId) >= 5

\* the run has ended because the parsing stage raised a NonRetryableError
ParsingFailedNonRetryable ==
    /\ request.state = "raised"
    /\ caught.type = "NonRetryableError"
    /\ opc \in 1..Len(Program)
    /\ Program[opc].stage = "parsing"

\* C23 as stated: when parsing fails with a non-retryable error the document
\* ends in error with progress 0, and the parsing stage has been invoked
\* exactly once and no other stage at all.
C23_ParsingInvokedOnce ==
    ParsingFailedNonRetryable =>
        /\ file_record.status = "error"
        /\ file_record.progress = 0
        /\ CalledStages = <<"parsing">>

\* C23: when parsing fails with a non-retryable error the document ends in
\* error with progress 0 and only the parsing stage has been invoked: never
\* again after the non-retryable failure, once when that failure is its
\* first, and at most 3 times when retryable failures came before it.
C23_NonRetryableParsingEndsRun ==
    ParsingFailedNonRetryable =>
        /\ file_record.status = "error"
        /\ file_record.progress = 0
        /\ Len(stage_calls) \in 1..3
        /\ \A i \in 1..Len(stage_calls) :
              /\ stage_calls[i].stage = "parsing"
              /\ stage_calls[i].outcome =
                    IF i = Len(stage_calls) THEN "NonRetryableError"
                                            ELSE "RetryableError"
        /\ in_flight = {}

\* Parsing has failed non-retryably at its first invocation, and the run is
\* over with the document in error.
C23_Witness ==
    /\ ParsingFailedNonRetryable
    /\ Len(stage_calls) = 1
    /\ stage_calls[1].outcome = "NonRetryableError"
    /\ file_record.status = "error"

C25_ProgressNonDecreasing ==
    /\ request.state = "running" \/ request.result = "completed" =>
          /\ \A i \in 1..Len(progress_seq) : progress_seq[i] \in 0..100
          /\ \A i \in 1..Len(progress_seq), j \in 1..Len(progress_seq) :
                i <= j => progress_seq[i] <= progress_seq[j]
    /\ request.result = "completed" =>
          /\ Len(progress_seq) > 0
          /\ progress_seq[Len(progress_seq)] = 100
          /\ file_record.progress = 100

\* A run has ended completed after writing all its progress values.
C25_Witness ==
    /\ request.result = "completed"
    /\ progress_seq = <<10, 30, 40, 60, 70, 90, 95, 100>>

\* the place of a stage in the order parse, chunk, embed, store
StageIndex(stage) == CHOOSE i \in 1..Len(Stages) : Stages[i] = stage

\* C26: in a run at most one stage function is in progress; the stages are
\* invoked in the order parsing, chunking, embedding, storing, a stage being
\* repeated only by its retries; and when the next stage is invoked the
\* stage before it has returned and its completed log entry has been written.
C26_StagesInOrderAfterLog ==
    /\ Cardinality(in_flight) <= 1
    /\ Len(stage_calls) > 0 => stage_calls[1].stage = "parsing"
    /\ \A i \in 2..Len(stage_calls) :
          \/ /\ stage_calls[i].stage = stage_calls[i - 1].stage
             /\ stage_calls[i - 1].outcome = "RetryableError"
          \/ /\ StageIndex(stage_calls[i].stage) = StageIndex(stage_calls[i - 1].stage) + 1
             /\ stage_calls[i - 1].outcome = "returned"
             /\ [stage |-> stage_calls[i - 1].stage, status |-> "completed"] \in RunLogs
    /\ \A i \in 1..Len(stage_calls) :
          stage_calls[i].outcome = "running" =>
             /\ i = Len(stage_calls)
             /\ in_flight = {stage_calls[i].stage}

\* The storing stage is in progress after the three stages before it.
C26_Witness ==
    /\ in_flight = {"storing"}
    /\ Len(stage_calls) >= 4
    /\ \E i \in 1..Len(stage_calls) : stage_calls[i].outcome = "RetryableError"
    /\ [stage |-> "embedding", status |-> "completed"] \in RunLogs

\* C27: once a run has left the document in error or completed, its record
\* changes only through a new explicit processing request.
C27_TerminalUntilExplicitRequest ==
    [][(/\ file_record.status \in {"error", "completed"}
        /\ file_record' # file_record)
       => (request'.explicit /\ request'.state = "queued")]_vars


\* ------------------------------------------------------- ClassifierSpec
\* log_and_handle_error is applied to one failure: an exception of any of
\* the classes, typed or not, whose message holds up to MaxKeywords of the
\* recognised keywords.
RECURSIVE KeywordSets(_)
KeywordSets(n) ==
    IF n = 0 THEN {{}}
    ELSE LET smaller == KeywordSets(n - 1)
         IN smaller \cup {m \cup {k} : m \in smaller, k \in Keywords}

Failures ==
    {RawError(type, m) : type \in RawClasses, m \in KeywordSets(MaxKeywords)}
    \cup {RetryableError(m, k, NULLTEXT) : m \in KeywordSets(MaxKeywords), k \in ErrorTypes}
    \cup {NonRetryableError(m, k, NULLTEXT) : m \in KeywordSets(MaxKeywords), k \in ErrorTypes}

\* the context arguments of the callers in tasks.py
Contexts == {"parsing", "chunking", "embedding", "storing", "document_processing"}

ClassifierInit ==
    /\ InitProgram /\ queue_of = SharedObject
    /\ InitHistory /\ InitWorker /\ InitWrapper /\ InitTracker /\ InitPipeline /\ InitSide
    /\ failure \in Failures
    /\ handled = NoError

ClassifierNext ==
    \E context \in Contexts :
       /\ LogAndHandleErrorCall(FileId, context)
       /\ UNCHANGED <<queue_vars, worker_vars, wrapper_vars, pipeline_vars, side_vars>>

ClassifierSpec == ClassifierInit /\ [][ClassifierNext]_vars

\* ApiSpec: handle_api_error is applied to one failure whose message holds
\* any combination of the keywords the function looks for.
ApiFailures == {RawError(type, m) : type \in RawClasses, m \in SUBSET ApiKeywords}

ApiInit ==
    /\ InitProgram /\ queue_of = SharedObject
    /\ InitHistory /\ InitWorker /\ InitWrapper /\ InitTracker /\ InitPipeline /\ InitSide
    /\ failure \in ApiFailures
    /\ handled = NoError

ApiNext ==
    /\ HandleApiErrorCall("OpenAI")
    /\ UNCHANGED <<queue_vars, worker_vars, wrapper_vars, tracker_vars, pipeline_vars, side_vars>>

ApiSpec == ApiInit /\ [][ApiNext]_vars

\* C28: a failure whose message matches none of the patterns of
\* log_and_handle_error comes back as kind unknown and non-retryable.
C28_UnmatchedIsUnknownNonRetryable ==
    (/\ handled # NoError
     /\ failure.type \in RawClasses
     /\ ~Has(failure.message, DispatchKeywords))
    => /\ handled.type = "NonRetryableError"
       /\ handled.error_type = "unknown_error"
       /\ handled.original_error = failure

\* C29: a RetryableError or NonRetryableError handed to
\* log_and_handle_error comes back with the same verdict and the same kind.
C29_TypedErrorKeepsVerdictAndKind ==
    (handled # NoError /\ failure.type \in TypedClasses)
    => /\ handled.type = failure.type
       /\ handled.error_type = failure.error_type

\* C30: handle_api_error returns one verdict and one kind, and for a message
\* that holds an authentication or malformed-request keyword, alone or with
\* any other keywords, they are non-retryable and api_error.
C30_AuthAndMalformedNonRetryable ==
    handled # NoError =>
       /\ handled.type \in TypedClasses
       /\ handled.error_type \in ErrorTypes
       /\ Has(failure.message, {"unauthorized", "authentication", "bad request", "invalid"})
             => /\ handled.type = "NonRetryableError"
                /\ handled.error_type = "api_error"

\* ------------------------------------------------ concurrency of the queue

\* The row fail_task(id, msg, retry) would write if its SELECT and its UPDATE
\* ran as one step on the row r.
SerialFailRow(r, now, msg, retry) ==
    FailRow(r, now, msg, retry, r.retry_count, r.max_retries)

\* C31: the read-modify-write sequences of the queue are atomic: whatever
\* other fail_task and complete_task calls run between the SELECT and the
\* UPDATE of a fail_task call, the row its UPDATE leaves is the row the call
\* would leave had it run alone at that moment, so that the task's state is
\* the result of the calls in the serial order of their UPDATEs and no
\* increment of retry_count is lost.
C31_FailCompleteSerializable ==
    [][\A c \in Callers :
          FailReturns(c) /\ local[c].id \in DOMAIN task_queue =>
             task_queue'[local[c].id] =
                SerialFailRow(task_queue[local[c].id], clock, local[c].msg, local[c].retry)]_vars

\* ------------------------------------------- record_error, thread by thread
\* record_error has no lock: between two statements of one thread, and
\* between the load and the store of `self.error_counts[task_id] += 1`,
\* another thread of the process may run.

\* record_error(task_id, error) is entered: `if task_id not in self.error_counts`
RecordEnter(c, task_id) ==
    /\ threads[c].at = "idle"
    /\ threads' = [threads EXCEPT ![c] =
                     [at |-> IF task_id \in DOMAIN error_counts THEN "load" ELSE "init",
                      task_id |-> task_id, count |-> 0]]
    /\ UNCHANGED tracker_vars

\* self.error_counts[task_id] = 0
RecordInitCount(c) ==
    /\ threads[c].at = "init"
    /\ error_counts' = [t \in DOMAIN error_counts \cup {threads[c].task_id} |->
                          IF t = threads[c].task_id THEN 0 ELSE error_counts[t]]
    /\ threads' = [threads EXCEPT ![c].at = "load"]
    /\ UNCHANGED <<error_history, recorded, asked>>

\* self.error_counts[task_id] += 1, the load of the current value
RecordLoad(c) ==
    /\ threads[c].at = "load"
    /\ threads' = [threads EXCEPT ![c].at = "store",
                                  ![c].count = error_counts[threads[c].task_id]]
    /\ UNCHANGED tracker_vars

\* self.error_counts[task_id] += 1, the store of the value loaded plus one
RecordStore(c) ==
    /\ threads[c].at = "store"
    /\ error_counts' = [error_counts EXCEPT ![threads[c].task_id] = threads[c].count + 1]
    /\ threads' = [threads EXCEPT ![c].at = "append"]
    /\ UNCHANGED <<error_history, recorded, asked>>

\* self.error_history.append(error_record) and the trim, then return
RecordAppend(c) ==
    /\ threads[c].at = "append"
    /\ error_history' =
          Trim(Append(error_history,
                      ErrorRecord(threads[c].task_id, ErrorOf(Len(recorded) + 1), clock)))
    /\ recorded' = Append(recorded,
                          ErrorRecord(threads[c].task_id, ErrorOf(Len(recorded) + 1), clock))
    /\ threads' = [threads EXCEPT ![c] = NoThread]
    /\ UNCHANGED <<error_counts, asked>>

\* ThreadsSpec: the threads of one process call record_error for two task
\* ids, in any interleaving of their statements.
CallsBegun == Len(recorded) + Cardinality({c \in Callers : threads[c].at # "idle"})

ThreadsNext ==
    \/ \E c \in Callers, id \in TrackerIds :
          /\ CallsBegun < MaxRecords
          /\ RecordEnter(c, id)
          /\ UNCHANGED <<queue_vars, worker_vars, wrapper_vars, classifier_vars, pipeline_vars,
                       db_call, handler_calls>>
    \/ \E c \in Callers :
          /\ RecordInitCount(c)
          /\ UNCHANGED <<queue_vars, worker_vars, wrapper_vars, classifier_vars, pipeline_vars,
                       db_call, handler_calls>>
    \/ \E c \in Callers :
          /\ RecordLoad(c)
          /\ UNCHANGED <<queue_vars, worker_vars, wrapper_vars, classifier_vars, pipeline_vars,
                       db_call, handler_calls>>
    \/ \E c \in Callers :
          /\ RecordStore(c)
          /\ UNCHANGED <<queue_vars, worker_vars, wrapper_vars, classifier_vars, pipeline_vars,
                       db_call, handler_calls>>
    \/ \E c \in Callers :
          /\ RecordAppend(c)
          /\ UNCHANGED <<queue_vars, worker_vars, wrapper_vars, classifier_vars, pipeline_vars,
                       db_call, handler_calls>>

ThreadsSpec == TrackerInit /\ [][ThreadsNext]_vars

\* C32: record_error calls made by several threads of one process exclude
\* each other: whenever no call is in progress, the count of every task id
\* is the number of record_error calls made for it, and the history (not yet
\* trimmed) holds one entry per call.
C32_ThreadedCountsExact ==
    (\A c \in Callers : threads[c].at = "idle") =>
        /\ \A id \in TrackerIds : GetErrorCount(error_counts, id) = RecordCalls(id)
        /\ Len(error_history) = Len(recorded)

\* ------------------------------------------- stage budgets and the tracker

\* how many times the stage function has been invoked in the run
Invocations(stage) ==
    Cardinality({i \in 1..Len(stage_calls) : stage_calls[i].stage = stage})

\* C33: in a run each stage function is invoked at most budget + 1 times
\* (parsing 3, chunking 3, embedding 4, storing 3), and a stage function is
\* invoked again only after its previous invocation failed with a
\* RetryableError.
C33_StageInvocationsBounded ==
    /\ Invocations("parsing") <= 2 + 1
    /\ Invocations("chunking") <= 2 + 1
    /\ Invocations("embedding") <= 3 + 1
    /\ Invocations("storing") <= 2 + 1
    /\ \A i \in 2..Len(stage_calls) :
          stage_calls[i].stage = stage_calls[i - 1].stage =>
             stage_calls[i - 1].outcome = "RetryableError"

\* The embedding stage is in its fourth invocation after three retryable
\* failures, the stages before it having used none of their retries.
C33_Witness ==
    /\ Invocations("embedding") = 4
    /\ Invocations("parsing") = 1
    /\ Invocations("chunking") = 1
    /\ in_flight = {"embedding"}
    /\ \A i \in 3..5 : stage_calls[i].outcome = "RetryableError"

\* the run has ended because a stage raised a RetryableError at the last
\* attempt of its budget
RetriesExhausted ==
    /\ request.state \in {"retry", "raised"}
    /\ caught.type = "RetryableError"
    /\ opc \in 1..Len(Program)
    /\ Program[opc].op = "stage"

\* C34: when a stage has failed with a retryable failure at every attempt of
\* its budget, the document is in status error with progress 0, last_error
\* is the error message written, error_count is one more than when the run
\* began, and no stage after the failed one has been invoked in the run.
C34_ExhaustedRetriesSetError ==
    RetriesExhausted =>
        LET stage == Program[opc].stage IN
        /\ file_record.status = "error"
        /\ file_record.progress = 0
        /\ file_record.message = "failed"
        /\ file_record.last_error = file_record.message
        /\ file_record.error_count = run_start.record.error_count + 1
        /\ Invocations(stage) = StageMaxRetries(stage) + 1
        /\ \A i \in 1..Len(stage_calls) :
              /\ StageIndex(stage_calls[i].stage) <= StageIndex(stage)
              /\ stage_calls[i].stage = stage => stage_calls[i].outcome = "RetryableError"
        /\ in_flight = {}

\* The chunking stage has failed three times with a retryable failure after
\* parsing returned, and the run is over with the document in error.
C34_Witness ==
    /\ RetriesExhausted
    /\ Program[opc].stage = "chunking"
    /\ Invocations("chunking") = 3
    /\ Invocations("parsing") = 1
    /\ run_start.record.progress = 0
    /\ file_record.status = "error"
    /\ file_record.error_count = 1

\* the run has ended in error because a stage failure left its wrapper
StageFailureEndedRun ==
    /\ request.state \in {"retry", "raised"}
    /\ caught # NoError

\* C35: whenever a run has ended in error because a stage failure survived
\* its wrapper's retries, non-retryable or retryable with the retries used
\* up, the tracker's count for the document is higher than when the run
\* began.
C35_SurvivingFailureIsRecorded ==
    StageFailureEndedRun =>
        /\ file_record.status = "error"
        /\ GetErrorCount(error_counts, FileId) > run_start.errors
        /\ \E i \in 1..Len(recorded) : recorded[i].task_id = FileId

\* A run has ended by a non-retryable failure of the first invocation of
\* parsing, and the tracker had recorded nothing before.
C35_Witness ==
    /\ StageFailureEndedRun
    /\ caught.type = "NonRetryableError"
    /\ Len(stage_calls) = 1
    /\ run_start.errors = 0
    /\ GetErrorCount(error_counts, FileId) = 1

\* the invocations of stage functions of the run that ended in a failure
FailedAttempts ==
    Cardinality({i \in 1..Len(stage_calls) :
                    stage_calls[i].outcome \in {"RetryableError", "NonRetryableError"}})

\* process_document's `except Exception` clause has handled the failure
GenericHandlerRan ==
    /\ request.state \in {"retry", "raised"}
    /\ caught # NoError
    /\ caught.type # "NonRetryableError"

\* C38: during and after a run the tracker's count for the document is its
\* count when the run began, plus one for every failed stage attempt, retried
\* or final, plus one when the failure reached process_document's generic
\* handler; so a run in which a stage uses up its retries raises the count by
\* at least the skip threshold of process_document, from 0 to the threshold
\* or beyond.
C38_EveryAttemptIsCounted ==
    /\ PastEntry /\ request.result # "skipped" =>
          GetErrorCount(error_counts, FileId) =
             run_start.errors + FailedAttempts + (IF GenericHandlerRan THEN 1 ELSE 0)
    /\ RetriesExhausted =>
          /\ GenericHandlerRan
          /\ GetErrorCount(error_counts, FileId) - run_start.errors >= SKIP_MAX_ERRORS
          /\ ShouldSkipTask(error_counts, FileId, SKIP_MAX_ERRORS)

\* One run has taken the count from 0 to 4: three failed attempts of parsing
\* and the generic handler.
C38_Witness ==
    /\ RetriesExhausted
    /\ run_start.errors = 0
    /\ Program[opc].stage = "parsing"
    /\ FailedAttempts = 3
    /\ GetErrorCount(error_counts, FileId) = 4
    /\ request.runs = 1

\* ---------------------------------------------------------- DatabaseSpec
\* update_file_status and update_file_results of the DatabaseManager are
\* called on one file record with any status, message and counts.

\* the values of the status column (database.py line 39)
FileStatuses ==
    {"pending", "parsing", "chunking", "embedding", "storing", "completed", "error"}

\* a call of db_manager.update_file_status(file_id, status, progress, message)
UpdateFileStatusCall(status, progress, message) ==
    /\ file_record' = UpdatedRecord(file_record, status, progress, message)
    /\ db_call' = [NoDbCall EXCEPT !.op = "status", !.n = db_call.n + 1,
                                   !.status = status, !.progress = progress,
                                   !.message = message]

\* a call of db_manager.update_file_results(file_id, total_pages, chunks_count)
UpdateFileResultsCall(total_pages, chunks_count) ==
    /\ file_record' = FileResults(file_record, total_pages, chunks_count)
    /\ db_call' = [NoDbCall EXCEPT !.op = "results", !.n = db_call.n + 1,
                                   !.total_pages = total_pages,
                                   !.chunks_count = chunks_count]

DatabaseNext ==
    \/ \E status \in FileStatuses, progress \in {0, 100}, message \in {"m1", "m2"} :
          /\ db_call.n < MaxDbCalls
          /\ UpdateFileStatusCall(status, progress, message)
          /\ UNCHANGED <<queue_vars, worker_vars, wrapper_vars, tracker_vars, classifier_vars,
                         processing_logs, opc, stage_attempt, in_flight, chunks, caught,
                         request, stage_calls, progress_seq, run_start,
                         threads, handler_calls>>
    \/ \E total_pages \in 0..MaxPages, chunks_count \in 0..MaxChunks :
          /\ db_call.n < MaxDbCalls
          /\ UpdateFileResultsCall(total_pages, chunks_count)
          /\ UNCHANGED <<queue_vars, worker_vars, wrapper_vars, tracker_vars, classifier_vars,
                         processing_logs, opc, stage_attempt, in_flight, chunks, caught,
                         request, stage_calls, progress_seq, run_start,
                         threads, handler_calls>>

DatabaseSpec == PipelineInit /\ [][DatabaseNext]_vars

\* the step is a call of the DatabaseManager
DbCalled(op) == db_call'.n = db_call.n + 1 /\ db_call'.op = op

\* C36: a status update to error adds exactly 1 to error_count and makes
\* last_error the message given; a status update to any other status, and a
\* results update, leave error_count and last_error as they were; error_count
\* never decreases.
C36_ErrorTransitionCounts ==
    [][/\ DbCalled("status") /\ db_call'.status = "error" =>
             /\ file_record'.status = "error"
             /\ file_record'.error_count = file_record.error_count + 1
             /\ file_record'.last_error = db_call'.message
       /\ DbCalled("status") /\ db_call'.status # "error" =>
             /\ file_record'.status = db_call'.status
             /\ file_record'.error_count = file_record.error_count
             /\ file_record'.last_error = file_record.last_error
       /\ DbCalled("results") =>
             /\ file_record'.error_count = file_record.error_count
             /\ file_record'.last_error = file_record.last_error
       /\ file_record'.error_count >= file_record.error_count]_vars

\* A record already in error has been set to error again with another
\* message: error_count is 2 and last_error is the second message.
C36_Witness ==
    /\ db_call.op = "status" /\ db_call.status = "error"
    /\ db_call.n = 2
    /\ file_record.error_count = 2
    /\ file_record.last_error = "m2"
    /\ file_record.last_error = db_call.message

\* C37: update_file_results overwrites total_pages, and chunks_count, only
\* with a positive value given for it and leaves it unchanged otherwise; no
\* update takes either of them from a positive value back to zero.
C37_ResultsOnlyPositive ==
    [][/\ DbCalled("results") =>
             /\ file_record'.total_pages =
                   IF db_call'.total_pages > 0 THEN db_call'.total_pages
                                               ELSE file_record.total_pages
             /\ file_record'.chunks_count =
                   IF db_call'.chunks_count > 0 THEN db_call'.chunks_count
                                                ELSE file_record.chunks_count
       /\ file_record.total_pages > 0 => file_record'.total_pages > 0
       /\ file_record.chunks_count > 0 => file_record'.chunks_count > 0]_vars

\* A results update that gave 0 for both counts has left the positive counts
\* of the record as they were.
C37_Witness ==
    /\ db_call.op = "results"
    /\ db_call.total_pages = 0 /\ db_call.chunks_count = 0
    /\ file_record.total_pages > 0
    /\ file_record.chunks_count > 0

\* ------------------------------------------------- the life of a task

\* the changes of status a task may go through
StatusSteps ==
    {<<"pending", "processing">>, <<"retry", "processing">>,
     <<"processing", "completed">>, <<"processing", "retry">>,
     <<"processing", "failed">>}

\* C39: when the worker loops share one queue object, whatever the
\* interleaving of their enqueue, dequeue, complete_task and fail_task
\* calls, a task starts pending, its status changes only from pending or
\* retry to processing and from processing to completed, retry or failed,
\* and a completed or failed task keeps its status for good.
C39_StatusStepsOnly ==
    [][queue_of = SharedObject =>
          /\ \A t \in DOMAIN task_queue' \ DOMAIN task_queue :
                task_queue'[t].status = "pending"
          /\ \A t \in DOMAIN task_queue :
                /\ t \in DOMAIN task_queue'
                /\ task_queue'[t].status # task_queue[t].status =>
                      <<task_queue[t].status, task_queue'[t].status>> \in StatusSteps
                /\ task_queue[t].status \in {"completed", "failed"} =>
                      task_queue'[t].status = task_queue[t].status]_vars

\* With one shared queue object, a task has been completed at its second
\* attempt: it went pending, processing, retry, processing, completed.
C39_Witness ==
    /\ queue_of = SharedObject
    /\ \E t \in DOMAIN task_queue :
          /\ task_queue[t].status = "completed"
          /\ task_queue[t].retry_count = 1
          /\ task_queue[t].error_message = TaskFailedMessage

\* -------------------------------------------------------------- PoolSpec
\* A pool of workers that have all registered a handler for process_pdf and
\* keep polling: none is stopped, interrupted or crashes, every handler
\* returns or raises, and time goes on while a task waits for its
\* next_retry_at.

\* self.task_registry of every worker of the pool
PoolRegistry == {"process_pdf"}

\* if task_name not in self.task_registry: fail_task(..., retry=False); return
PoolFailUnknown(c) ==
    /\ wpc[c] = "process"
    /\ task[c].task_name \notin PoolRegistry
    /\ FailRead(c, task[c].id, UnknownTaskMessage, FALSE)
    /\ AfterFailRead(c)
    /\ UNCHANGED <<running, task>>

\* func = self.task_registry[task_name]; func(*args, **kwargs) is called
PoolInvoke(c) ==
    /\ wpc[c] = "process"
    /\ task[c].task_name \in PoolRegistry
    /\ wpc' = [wpc EXCEPT ![c] = "handler"]
    /\ handler_calls' = [handler_calls EXCEPT ![task[c].id] = @ + 1]
    /\ UNCHANGED <<running, task, prog_vars>>

\* a minute passes while a task in retry waits for its next_retry_at
WaitTick ==
    /\ \E t \in DOMAIN task_queue :
          /\ task_queue[t].status = "retry"
          /\ task_queue[t].next_retry_at > clock
    /\ clock' = clock + 1
    /\ UNCHANGED <<task_queue, next_id, queue_of, lock, pc, local>>

\* a step of worker c
PoolWorker(c) ==
    \/ WorkerStart(c)
          /\ UNCHANGED <<hist_vars, wrapper_vars, tracker_vars, doc_vars>>
    \/ WorkerDequeueSelect(c)
          /\ UNCHANGED <<hist_vars, wrapper_vars, tracker_vars, doc_vars>>
    \/ WorkerDequeueUpdate(c)
          /\ UNCHANGED <<hist_vars, wrapper_vars, tracker_vars, doc_vars>>
    \/ WorkerWake(c)
          /\ UNCHANGED <<hist_vars, wrapper_vars, tracker_vars, doc_vars>>
    \/ PoolFailUnknown(c)
          /\ UNCHANGED <<hist_vars, wrapper_vars, tracker_vars, doc_vars>>
    \/ PoolInvoke(c)
          /\ UNCHANGED <<hist_vars, wrapper_vars, tracker_vars, classifier_vars,
                         pipeline_vars, threads, db_call>>
    \/ \E v \in SpecValues :
          WorkerComplete(c, v)
             /\ UNCHANGED <<hist_vars, wrapper_vars, tracker_vars, doc_vars>>
    \/ WorkerHandlerRaises(c)
          /\ UNCHANGED <<hist_vars, wrapper_vars, tracker_vars, doc_vars>>
    \/ WorkerFailWrite(c)
          /\ UNCHANGED <<hist_vars, wrapper_vars, tracker_vars, doc_vars>>

PoolNext ==
    \/ \E c \in Callers, name \in TaskNames :
          /\ next_id <= MaxTasks
          /\ Enqueue(c, name, NoKwargs)
          /\ UNCHANGED <<hist_vars, ext_vars>>
    \/ \E c \in Callers : PoolWorker(c)
    \/ WaitTick /\ UNCHANGED <<hist_vars, ext_vars>>

PoolSpec == Init /\ [][PoolNext]_vars

\* C40: when the workers keep polling, none crashes, every handler call ends
\* and time passes, no task's handler is invoked more than max_retries + 1
\* times on the way to completed or failed.
C40_HandlerCallsBounded ==
    \A t \in DOMAIN task_queue :
        handler_calls[t] <= task_queue[t].max_retries + 1

=============================================================================
